---- MODULE Spec2Model ----
(***************************************************************************)
(* Verification model of the audio/video streaming server (src/server).    *)
(*                                                                         *)
(* The module holds one state machine per component, all over the same     *)
(* variables:                                                              *)
(*   SpecQ     SafeQueue<T> used by producers and consumers                *)
(*   SpecRing  CircularBuffer driven by write/read/peek/clear              *)
(*   SpecRecv  Connection::receive_message fed a framed byte stream        *)
(*   SpecFan   accept loop, thread pool, distribution loops and broadcast  *)
(*   SpecMsg   Message built, mutated, serialized, parsed and corrupted     *)
(*   SpecPool  frame pools used by the capture thread and the pipeline     *)
(*   SpecTP    ThreadPool: workers, add_work and shutdown                  *)
(*   SpecIds   connection ids handed out by the accept loop                *)
(*   SpecCap   capture_loop with its drop-oldest queue and a consumer      *)
(*   SpecPipe  two captures, process_loop, the encoder and message_queue_  *)
(*   SpecDisp  AVServer::on_message_received and the handlers it calls     *)
(*   SpecFac   AVServer::start and stop over the components and threads    *)
(*   SpecSend  Connection::send over a socket that takes partial writes    *)
(*   SpecSrv   TcpServer from start() to stop(): accept loop, hooks,       *)
(*             handle_client tasks, close and stop                         *)
(* A specification constructs the component it drives; the variables of    *)
(* the other components hold Absent.                                       *)
(***************************************************************************)
EXTENDS Integers, Naturals, Sequences, FiniteSets, TLC

VARIABLES
    \* ---- SafeQueue<T> (AVServer_01_SafeQueue.h) ----
    queue_,        \* std::queue<T> queue_
    shutdown_,     \* bool shutdown_
    cvWaiting,     \* threads blocked inside condition_.wait / wait_for
    cpc,           \* per consumer: where it is inside pop / pop_for
    lastRet,       \* the most recent return of pop / pop_for on a shut-down queue:
                   \* its result, whether the queue held an item, whether the item
                   \* returned was the front
    ppc,           \* per producer: between queue_.push and notify_one
    spc,           \* the thread calling shutdown(): between store and notify_all
    nextItem,      \* next value a producer pushes (values are distinct)
    pushed,        \* values whose queue_.push has executed
    delivered,     \* values handed to consumers, in removal order
    clearedItems,  \* values removed by clear()
    shutdownDone,  \* some call of shutdown() has returned
    \* ---- CircularBuffer (AVServer_02_CircularBuffer.h) ----
    capacity_,     \* const size_t capacity_
    buffer_,       \* uint8_t buffer_[capacity_]
    write_pos_,    \* size_t write_pos_
    read_pos_,     \* size_t read_pos_
    relock,        \* what locking mutex_ a second time on the owning thread does
    ringHung,      \* a thread is stuck inside the buffer holding mutex_
    ringFifo,      \* bytes reported written since the last clear() and not yet read
    ringOut,       \* the last write / read / peek: its result, what a byte queue gives
    nextByte,      \* next byte value the writer offers (values are distinct)
    \* ---- Connection receive path (AVServer_08_Connection.h) ----
    connected_,    \* std::atomic<bool> connected_
    stream,        \* the bytes the peer sends, in order
    streamMsgs,    \* the messages the peer serialized into the stream, with the
                   \* offset of each one's first byte
    recvPos,       \* how many bytes of the stream ::recv has returned so far
    message,       \* the caller's Message object passed to receive_message
    yielded,       \* the messages receive_message returned with result true
    ringClears,    \* how often try_extract_message cleared recv_buffer_
    firstClearAt,  \* recvPos at the first such clear, -1 before it
    bytesDropped,  \* received bytes that recv_buffer_.write did not accept
    bytesTaken,    \* bytes removed from recv_buffer_ by read()
    \* ---- TcpServer, AVServer, StreamingService, MediaProcessor ----
    next_connection_id_,  \* std::atomic<uint32_t> next_connection_id_
    connections_,  \* TcpServer::connections_: the ids in the registry
    clients_,      \* StreamingService::clients_: the ids with a session
    statsOwner,    \* the thread that holds AVServer::stats_mutex_
    connOwner,     \* the thread that holds TcpServer::connections_mutex_
    apc,           \* accept thread: where it is, and the connection in hand
    dpc,           \* AVServer distribution thread: where it is, the message
                   \* in hand and the sessions of its copy still to serve
    bpc,           \* a thread inside TcpServer::broadcast
    tasks,         \* per connection: progress of its handle_client task
    message_queue_,  \* MediaProcessor::message_queue_
    nextMsg,       \* next message the pipeline produces (1, 2, ...)
    sentTo,        \* per connection: pipeline messages whose send returned
    accounted,     \* messages taken by StreamingService::distribution_loop
    stuckConn,     \* the connection whose peer never reads
    sndbuf,        \* messages sitting in the socket of stuckConn
    broadcasts,    \* calls of broadcast() so far
    \* ---- Message objects (AVServer_06_MessageProtocol.h) ----
    src_msg,       \* a Message built by a constructor and changed by mutators
    wire,          \* the bytes of the last to_bytes() of src_msg
    dst_msg,       \* the Message that from_bytes() is called on
    rtrip,         \* whether from_bytes() has run on dst_msg, and its result
    probe,         \* the last header with one bit inverted: the field hit
                   \* and what is_valid() says
    \* ---- FrameBufferPool, VideoCapture, MediaProcessor::process_loop ----
    video_pool,    \* VideoCapture::frame_pool_: frames available, and the
                   \* counters stats_total_get_ and stats_total_return_
    encode_pool,   \* the pool process_loop creates for encoded frames
    frame_queue_,  \* VideoCapture::frame_queue_: how many frames it holds
    pool_pc,       \* where the capture thread and the pipeline thread are,
                   \* which tells the frames each has in hand
    \* ---- ThreadPool (AVServer_04_ThreadPool.h) ----
    thread_pool,   \* stop_, active_tasks_, and queue_ with its shutdown_ flag
    workers,       \* per worker thread: where it is in worker(), the task in
                   \* hand, whether the last task it ran threw
    callers,       \* per thread that may call shutdown(): where it is
    tp_log,        \* tasks added, run to the end, running when stop_ was
                   \* set, and taken from the queue after stop_ was set
    \* ---- Connection ids (AVServer_07_TcpServer.h) ----
    lifetime,      \* one TcpServer with next_connection_id_ at its 32-bit
                   \* width: the counter, the registry, the ids in accept
                   \* order, those rejected and those removed
    \* ---- TcpServer from start() to stop() (AVServer_07_TcpServer.h) ----
    srv,           \* the flags, registry and thread pool of one TcpServer,
                   \* its connections, where the accept thread, the workers
                   \* and the callers of stop() are, and what the hooks did
    \* ---- Connection::send (AVServer_08_Connection.h) ----
    snd,           \* one call of send(): connected_, the serialized bytes, total_sent
                   \* and remaining, the bytes the socket took, and what was returned
    \* ---- VideoCapture / AudioCapture capture_loop and its consumer ----
    capture,       \* the AVFrame objects and what each holds, the pool, frame_queue_,
                   \* the capture thread, the consumer, and the frames pushed, evicted
                   \* and taken so far
    \* ---- MediaProcessor::process_loop between the captures and message_queue_ ----
    pipe,          \* the two capture queues and their threads, the engine, the encode
                   \* pool, the processing thread, message_queue_ and what left it
    \* ---- AVServer::on_message_received and its handlers ----
    disp,          \* the subscribers and their caps, the encoder target, each
                   \* connection's handler and message, and what was sent on each
    \* ---- AVServer::start and AVServer::stop over their components ----
    fac,           \* the facade's running_, its components, the listener, the
                   \* distribution, stats and accept threads, the caller inside
                   \* start() and stop(), and the order of what started and stopped
    \* ---- Subscriber sessions and the two distribution loops ----
    sub,           \* StreamingService::clients_, the connections behind them,
                   \* the shared message queue and AVServer::distribution_loop's position
    \* ---- One Connection used by several threads ----
    link           \* Connection::connected_ and socket_, the descriptor's state in the
                   \* kernel, and the positions of close() and of the send/receive callers

qvars == <<queue_, shutdown_, cvWaiting, cpc, lastRet, ppc, spc, nextItem,
           pushed, delivered, clearedItems, shutdownDone>>

rvars == <<capacity_, buffer_, write_pos_, read_pos_, relock, ringHung,
           ringFifo, ringOut, nextByte>>

cvars == <<connected_, stream, streamMsgs, recvPos, message, yielded,
           ringClears, firstClearAt, bytesDropped, bytesTaken>>

fvars == <<next_connection_id_, connections_, clients_, statsOwner, connOwner,
           apc, dpc, bpc, tasks, message_queue_, nextMsg, sentTo, accounted,
           stuckConn, sndbuf, broadcasts>>

mvars == <<src_msg, wire, dst_msg, rtrip, probe>>

pvars == <<video_pool, encode_pool, frame_queue_, pool_pc>>

tvars == <<thread_pool, workers, callers, tp_log>>

ivars == <<lifetime>>

svars == <<srv>>

nvars == <<snd>>

avars == <<capture>>

evars == <<pipe>>

dvars == <<disp>>

gvars == <<fac>>

uvars == <<sub>>

kvars == <<link>>

vars == <<qvars, rvars, cvars, fvars, mvars, pvars, tvars, ivars, svars,
          nvars, avars, evars, dvars, gvars, uvars, kvars>>

\* What the actions of one component leave alone.
notQ == <<ivars, rvars, cvars, fvars, mvars, pvars, tvars, svars, nvars,
          avars, evars, dvars, gvars, uvars, kvars>>
notR == <<ivars, qvars, cvars, fvars, mvars, pvars, tvars, svars, nvars,
          avars, evars, dvars, gvars, uvars, kvars>>
notC == <<ivars, qvars, fvars, mvars, pvars, tvars, svars, nvars, avars,
          evars, dvars, gvars, uvars, kvars>>
notF == <<ivars, qvars, rvars, cvars, mvars, pvars, tvars, svars, nvars,
          avars, evars, dvars, gvars, uvars, kvars>>
notM == <<ivars, qvars, rvars, cvars, fvars, pvars, tvars, svars, nvars,
          avars, evars, dvars, gvars, uvars, kvars>>
notP == <<ivars, qvars, rvars, cvars, fvars, mvars, tvars, svars, nvars,
          avars, evars, dvars, gvars, uvars, kvars>>
notT == <<ivars, qvars, rvars, cvars, fvars, mvars, pvars, svars, nvars,
          avars, evars, dvars, gvars, uvars, kvars>>
notI == <<qvars, rvars, cvars, fvars, mvars, pvars, tvars, svars, nvars,
          avars, evars, dvars, gvars, uvars, kvars>>
notS == <<qvars, rvars, cvars, fvars, mvars, pvars, tvars, ivars, nvars,
          avars, evars, dvars, gvars, uvars, kvars>>
notN == <<qvars, rvars, cvars, fvars, mvars, pvars, tvars, ivars, svars,
          avars, evars, dvars, gvars, uvars, kvars>>
notA == <<qvars, rvars, cvars, fvars, mvars, pvars, tvars, ivars, svars,
          nvars, evars, dvars, gvars, uvars, kvars>>
notE == <<qvars, rvars, cvars, fvars, mvars, pvars, tvars, ivars, svars,
          nvars, avars, dvars, gvars, uvars, kvars>>
notD == <<qvars, rvars, cvars, fvars, mvars, pvars, tvars, ivars, svars,
          nvars, avars, evars, gvars, uvars, kvars>>
notG == <<qvars, rvars, cvars, fvars, mvars, pvars, tvars, ivars, svars,
          nvars, avars, evars, dvars, uvars, kvars>>
notU == <<qvars, rvars, cvars, fvars, mvars, pvars, tvars, ivars, svars,
          nvars, avars, evars, dvars, gvars, kvars>>
notK == <<qvars, rvars, cvars, fvars, mvars, pvars, tvars, ivars, svars,
          nvars, avars, evars, dvars, gvars, uvars>>

----------------------------------------------------------------------------
(* Bounds of the queue model *)
NumProducers == 2
NumConsumers == 2
MaxItems == 2

(* Bounds of the ring buffer model *)
RingCapacity == 3
MaxRingBytes == 5

(* Bounds of the receive path model *)
MaxMsgs == 2
MaxPayload == 1
MaxGarbage == 20
RecvBufferSize == 48

(* Bounds of the fan-out model *)
NumClients == 2
MaxFanMsgs == 2
SendBufCap == 1
MaxBroadcasts == 1

(* Bounds of the message model *)
MaxMsgPayload == 2

(* Bounds of the frame pool model *)
PoolSize == 2
BufferSize == 2
MaxGets == 4

(* Bounds of the thread pool model *)
NumWorkers == 2
MaxTasks == 2
NumCallers == 2

(* Bounds of the connection id model *)
MaxAccepts == 4
MaxConfigConnections == 2

(* Bounds of the capture model *)
MaxCaptures == 5
MaxBufferSize == 3

(* Bounds of the pipeline model *)
MaxFrames == 3
QueueBound == 2

(* Bounds of the dispatch model *)
MaxDispatches == 2
MaxBitrateLen == 5

(* Bounds of the subscriber model *)
NumSubs == 2
MaxSubMsgs == 2

(* Bounds of the connection close model *)
MaxIoCalls == 3

(* Bounds of the send model *)
MaxSendPayload == 2

(* Bounds of the server lifecycle model *)
MaxSockets == 2
NumSrvWorkers == 1
MaxStopCalls == 2

Producers == 1..NumProducers
Consumers == 1..NumConsumers

NoRet == [op |-> "none", ok |-> FALSE, front |-> FALSE, nonempty |-> FALSE]

----------------------------------------------------------------------------
(* SafeQueue<T> *)

\* The predicate both waits use: [this]{ return !queue_.empty() || shutdown_; }
WaitPred(q, sd) == (q # <<>>) \/ sd

\* pop(), after condition_.wait returned (lines 149-161): the result and the
\* queue left behind.
PopBodyShutdownFirst(q, sd) ==
    IF sd THEN [ok |-> FALSE, item |-> 0, q |-> q]
    ELSE IF q # <<>> THEN [ok |-> TRUE, item |-> Head(q), q |-> Tail(q)]
    ELSE [ok |-> FALSE, item |-> 0, q |-> q]

PopBody(q, sd) ==
    IF sd /\ q = <<>> THEN [ok |-> FALSE, item |-> 0, q |-> q]
    ELSE IF q # <<>> THEN [ok |-> TRUE, item |-> Head(q), q |-> Tail(q)]
    ELSE [ok |-> FALSE, item |-> 0, q |-> q]

\* pop_for(), after wait_for returned `result` (lines 182-197).
PopForBody(q, sd, result) ==
    IF ~result THEN [ok |-> FALSE, item |-> 0, q |-> q]
    ELSE IF sd /\ q = <<>> THEN [ok |-> FALSE, item |-> 0, q |-> q]
    ELSE IF q # <<>> THEN [ok |-> TRUE, item |-> Head(q), q |-> Tail(q)]
    ELSE [ok |-> FALSE, item |-> 0, q |-> q]

\* try_pop() (lines 209-219).
TryPopBodyBack(q) ==
    IF q = <<>> THEN [ok |-> FALSE, item |-> 0, q |-> q]
    ELSE [ok |-> TRUE, item |-> q[Len(q)], q |-> SubSeq(q, 1, Len(q) - 1)]

TryPopBodyNoRemove(q) ==
    IF q = <<>> THEN [ok |-> FALSE, item |-> 0, q |-> q]
    ELSE [ok |-> TRUE, item |-> Head(q), q |-> q]

TryPopBody(q) ==
    IF q = <<>> THEN [ok |-> FALSE, item |-> 0, q |-> q]
    ELSE [ok |-> TRUE, item |-> Head(q), q |-> Tail(q)]

\* condition_.notify_all() in shutdown(): the threads left blocked.
NotifyOneOnly(waiting) ==
    IF waiting = {} THEN {} ELSE waiting \ {CHOOSE t \in waiting : TRUE}

NotifyAll(waiting) == {}

\* A consumer returns from a pop variant: hand over the item; a return of pop or
\* pop_for that ran on a shut-down queue is recorded.
Return(t, op, r) ==
    /\ queue_' = r.q
    /\ lastRet' = IF shutdown_ /\ op \in {"pop", "pop_for"}
                  THEN [op |-> op, ok |-> r.ok,
                        front |-> r.ok /\ queue_ # <<>> /\ r.item = Head(queue_),
                        nonempty |-> queue_ # <<>>]
                  ELSE lastRet
    /\ delivered' = IF r.ok THEN Append(delivered, r.item) ELSE delivered
    /\ cpc' = [cpc EXCEPT ![t] = "idle"]

\* push(): lock_guard block (lines 101-106); notify_one follows unlocked.
PushLocked(p) ==
    /\ ppc[p] = "idle"
    /\ nextItem <= MaxItems
    /\ queue_' = Append(queue_, nextItem)
    /\ pushed' = pushed \cup {nextItem}
    /\ nextItem' = nextItem + 1
    /\ ppc' = [ppc EXCEPT ![p] = "notify"]
    /\ UNCHANGED <<shutdown_, cvWaiting, cpc, lastRet, spc, delivered,
                   clearedItems, shutdownDone>>
    /\ UNCHANGED notQ

\* push(): condition_.notify_one() (line 109) wakes one blocked thread, if any.
PushNotify(p) ==
    /\ ppc[p] = "notify"
    /\ ppc' = [ppc EXCEPT ![p] = "idle"]
    /\ \/ /\ cvWaiting = {}
          /\ UNCHANGED <<cvWaiting, cpc>>
       \/ \E t \in cvWaiting :
            /\ cvWaiting' = cvWaiting \ {t}
            /\ cpc' = [cpc EXCEPT ![t] = IF cpc[t] = "pop_wait"
                                          THEN "pop_woken" ELSE "popfor_woken"]
    /\ UNCHANGED <<queue_, shutdown_, lastRet, spc, nextItem, pushed,
                   delivered, clearedItems, shutdownDone>>
    /\ UNCHANGED notQ

\* pop(): lock and evaluate the wait predicate (lines 141-147); when it is
\* false the thread releases the mutex and blocks, otherwise the rest of pop
\* runs under the same lock.
PopEnter(t) ==
    /\ cpc[t] = "idle"
    /\ IF WaitPred(queue_, shutdown_)
       THEN /\ Return(t, "pop", PopBody(queue_, shutdown_))
            /\ UNCHANGED cvWaiting
       ELSE /\ cpc' = [cpc EXCEPT ![t] = "pop_wait"]
            /\ cvWaiting' = cvWaiting \cup {t}
            /\ UNCHANGED <<queue_, lastRet, delivered>>
    /\ UNCHANGED <<shutdown_, ppc, spc, nextItem, pushed, clearedItems,
                   shutdownDone>>
    /\ UNCHANGED notQ

\* pop(): a woken thread re-acquires the mutex and re-evaluates the predicate.
PopWake(t) ==
    /\ cpc[t] = "pop_woken"
    /\ IF WaitPred(queue_, shutdown_)
       THEN /\ Return(t, "pop", PopBody(queue_, shutdown_))
            /\ UNCHANGED cvWaiting
       ELSE /\ cpc' = [cpc EXCEPT ![t] = "pop_wait"]
            /\ cvWaiting' = cvWaiting \cup {t}
            /\ UNCHANGED <<queue_, lastRet, delivered>>
    /\ UNCHANGED <<shutdown_, ppc, spc, nextItem, pushed, clearedItems,
                   shutdownDone>>
    /\ UNCHANGED notQ

\* pop_for(): lock and evaluate the predicate of wait_for (lines 174-180).
PopForEnter(t) ==
    /\ cpc[t] = "idle"
    /\ IF WaitPred(queue_, shutdown_)
       THEN /\ Return(t, "pop_for", PopForBody(queue_, shutdown_, TRUE))
            /\ UNCHANGED cvWaiting
       ELSE /\ cpc' = [cpc EXCEPT ![t] = "popfor_wait"]
            /\ cvWaiting' = cvWaiting \cup {t}
            /\ UNCHANGED <<queue_, lastRet, delivered>>
    /\ UNCHANGED <<shutdown_, ppc, spc, nextItem, pushed, clearedItems,
                   shutdownDone>>
    /\ UNCHANGED notQ

\* pop_for(): woken before the deadline.
PopForWake(t) ==
    /\ cpc[t] = "popfor_woken"
    /\ IF WaitPred(queue_, shutdown_)
       THEN /\ Return(t, "pop_for", PopForBody(queue_, shutdown_, TRUE))
            /\ UNCHANGED cvWaiting
       ELSE /\ cpc' = [cpc EXCEPT ![t] = "popfor_wait"]
            /\ cvWaiting' = cvWaiting \cup {t}
            /\ UNCHANGED <<queue_, lastRet, delivered>>
    /\ UNCHANGED <<shutdown_, ppc, spc, nextItem, pushed, clearedItems,
                   shutdownDone>>
    /\ UNCHANGED notQ

\* pop_for(): the deadline passes; wait_for re-acquires the mutex and returns
\* the predicate's value at that moment.
PopForTimeout(t) ==
    /\ cpc[t] \in {"popfor_wait", "popfor_woken"}
    /\ cvWaiting' = cvWaiting \ {t}
    /\ Return(t, "pop_for",
              PopForBody(queue_, shutdown_, WaitPred(queue_, shutdown_)))
    /\ UNCHANGED <<shutdown_, ppc, spc, nextItem, pushed, clearedItems,
                   shutdownDone>>
    /\ UNCHANGED notQ

\* try_pop(): one lock_guard block.
TryPop(t) ==
    /\ cpc[t] = "idle"
    /\ Return(t, "try_pop", TryPopBody(queue_))
    /\ UNCHANGED <<shutdown_, cvWaiting, ppc, spc, nextItem, pushed,
                   clearedItems, shutdownDone>>
    /\ UNCHANGED notQ

\* A condition variable may wake a waiter without any notification.
SpuriousWake(t) ==
    /\ t \in cvWaiting
    /\ cvWaiting' = cvWaiting \ {t}
    /\ cpc' = [cpc EXCEPT ![t] = IF cpc[t] = "pop_wait"
                                  THEN "pop_woken" ELSE "popfor_woken"]
    /\ UNCHANGED <<queue_, shutdown_, lastRet, ppc, spc, nextItem, pushed,
                   delivered, clearedItems, shutdownDone>>
    /\ UNCHANGED notQ

\* clear(): pops every element under the lock (lines 252-259).
QueueClear ==
    /\ queue_ # <<>>
    /\ clearedItems' = clearedItems \cup {queue_[i] : i \in 1..Len(queue_)}
    /\ queue_' = <<>>
    /\ UNCHANGED <<shutdown_, cvWaiting, cpc, lastRet, ppc, spc, nextItem,
                   pushed, delivered, shutdownDone>>
    /\ UNCHANGED notQ

\* shutdown(): the lock_guard block that sets the flag (lines 273-276).
ShutdownStore ==
    /\ spc = "idle"
    /\ shutdown_' = TRUE
    /\ spc' = "notify"
    /\ UNCHANGED <<queue_, cvWaiting, cpc, lastRet, ppc, nextItem, pushed,
                   delivered, clearedItems, shutdownDone>>
    /\ UNCHANGED notQ

\* shutdown(): condition_.notify_all() (line 278).
ShutdownNotify ==
    /\ spc = "notify"
    /\ spc' = "idle"
    /\ shutdownDone' = TRUE
    /\ cvWaiting' = NotifyAll(cvWaiting)
    /\ cpc' = [t \in Consumers |->
                 IF t \in cvWaiting /\ t \notin cvWaiting'
                 THEN (IF cpc[t] = "pop_wait" THEN "pop_woken" ELSE "popfor_woken")
                 ELSE cpc[t]]
    /\ UNCHANGED <<queue_, shutdown_, lastRet, ppc, nextItem, pushed,
                   delivered, clearedItems>>
    /\ UNCHANGED notQ

QInit ==
    /\ queue_ = <<>>
    /\ shutdown_ = FALSE
    /\ cvWaiting = {}
    /\ cpc = [t \in Consumers |-> "idle"]
    /\ lastRet = NoRet
    /\ ppc = [p \in Producers |-> "idle"]
    /\ spc = "idle"
    /\ nextItem = 1
    /\ pushed = {}
    /\ delivered = <<>>
    /\ clearedItems = {}
    /\ shutdownDone = FALSE

QNext ==
    \/ \E p \in Producers : PushLocked(p)
    \/ \E p \in Producers : PushNotify(p)
    \/ \E t \in Consumers : PopEnter(t)
    \/ \E t \in Consumers : PopWake(t)
    \/ \E t \in Consumers : PopForEnter(t)
    \/ \E t \in Consumers : PopForWake(t)
    \/ \E t \in Consumers : PopForTimeout(t)
    \/ \E t \in Consumers : TryPop(t)
    \/ \E t \in Consumers : SpuriousWake(t)
    \/ QueueClear
    \/ ShutdownStore
    \/ ShutdownNotify

----------------------------------------------------------------------------
(* CircularBuffer *)

Min(a, b) == IF a < b THEN a ELSE b

\* std::mutex is not recursive: a second lock() by the owning thread is
\* undefined.  The builds differ: pthread mutexes block forever, recursive
\* implementations let the call through.
RelockOutcomes == {"deadlock", "proceeds"}

\* available_data(): the public, locking variant (lines 224-235).
available_data(w, r, cap) ==
    IF w >= r THEN w - r ELSE cap - r + w

\* available_data_unlocked() (lines 301-307).
available_data_unlocked_signslip(w, r, cap) ==
    IF w >= r THEN w - r ELSE cap - r - w

available_data_unlocked(w, r, cap) ==
    IF w >= r THEN w - r ELSE cap - r + w

\* available_space() (lines 244-247).
available_space(w, r, cap) == cap - available_data_unlocked(w, r, cap)

\* std::memcpy(dst + at, src + from, n) on the byte array dst.
MemcpyIn(dst, at, src, from, n) ==
    [i \in DOMAIN dst |->
        IF i >= at /\ i < at + n THEN src[from + (i - at) + 1] ELSE dst[i]]

\* The n bytes of the array buf starting at index at, as a sequence.
MemcpyOut(buf, at, n) == [k \in 1..n |-> buf[at + k - 1]]

\* write(data, size) after the lock was taken (lines 99-128): the array, the
\* write index and the return value.
RingWrite(buf, w, r, cap, data) ==
    LET size == Len(data)
        available == cap - available_data(w, r, cap)
        bytes_to_write == Min(size, available)
    IN  IF size = 0 \/ bytes_to_write = 0
        THEN [buf |-> buf, w |-> w, n |-> 0]
        ELSE IF w + bytes_to_write <= cap
        THEN [buf |-> MemcpyIn(buf, w, data, 0, bytes_to_write),
              w |-> (w + bytes_to_write) % cap,
              n |-> bytes_to_write]
        ELSE LET first_part == cap - w
                 second_part == bytes_to_write - first_part
             IN  [buf |-> MemcpyIn(MemcpyIn(buf, w, data, 0, first_part),
                                   0, data, first_part, second_part),
                  w |-> second_part,
                  n |-> bytes_to_write]

\* peek(data, size) after the lock was taken (lines 196-214): the bytes copied
\* out.
RingPeek(buf, w, r, cap, size) ==
    LET bytes_available == available_data(w, r, cap)
        bytes_to_peek == Min(size, bytes_available)
    IN  IF size = 0 \/ bytes_to_peek = 0
        THEN <<>>
        ELSE IF r + bytes_to_peek <= cap
        THEN MemcpyOut(buf, r, bytes_to_peek)
        ELSE LET first_part == cap - r
                 second_part == bytes_to_peek - first_part
             IN  MemcpyOut(buf, r, first_part) \o MemcpyOut(buf, 0, second_part)

\* read(data, size) after the lock was taken (lines 149-176): the bytes copied
\* out and the read index.
RingRead(buf, w, r, cap, size) ==
    LET bytes_available == available_data(w, r, cap)
        bytes_to_read == Min(size, bytes_available)
    IN  IF size = 0 \/ bytes_to_read = 0
        THEN [data |-> <<>>, r |-> r]
        ELSE IF r + bytes_to_read <= cap
        THEN [data |-> MemcpyOut(buf, r, bytes_to_read),
              r |-> (r + bytes_to_read) % cap]
        ELSE LET first_part == cap - r
                 second_part == bytes_to_read - first_part
             IN  [data |-> MemcpyOut(buf, r, first_part)
                             \o MemcpyOut(buf, 0, second_part),
                  r |-> second_part]

\* The first n elements of a sequence, and the rest.
Take(q, n) == SubSeq(q, 1, Min(n, Len(q)))
Drop(q, n) == SubSeq(q, Min(n, Len(q)) + 1, Len(q))

\* write / read / peek lock mutex_ and then call the locking available_data()
\* (lines 96-99, 146-149, 194-196): on a build where the second lock() blocks,
\* the calling thread never returns and mutex_ stays locked.
RingRelockHang ==
    /\ ~ringHung
    /\ relock = "deadlock"
    /\ ringHung' = TRUE
    /\ UNCHANGED <<capacity_, buffer_, write_pos_, read_pos_, relock,
                   ringFifo, ringOut, nextByte>>
    /\ UNCHANGED notR

\* write(data, size) with size > 0 returning; the caller offers the next
\* `size` bytes of its stream.
RingWriteOp(size) ==
    /\ ~ringHung
    /\ relock = "proceeds"
    /\ nextByte + size <= MaxRingBytes
    /\ LET data == [k \in 1..size |-> nextByte + k]
           res == RingWrite(buffer_, write_pos_, read_pos_, capacity_, data)
       IN  /\ buffer_' = res.buf
           /\ write_pos_' = res.w
           /\ ringFifo' = ringFifo \o Take(data, res.n)
           /\ ringOut' = [op |-> "write", data |-> Take(data, res.n),
                          expect |-> Take(data, res.n)]
           /\ nextByte' = nextByte + res.n
    /\ UNCHANGED <<capacity_, read_pos_, relock, ringHung>>
    /\ UNCHANGED notR

\* read(data, size) with size > 0 returning.
RingReadOp(size) ==
    /\ ~ringHung
    /\ relock = "proceeds"
    /\ LET res == RingRead(buffer_, write_pos_, read_pos_, capacity_, size)
       IN  /\ read_pos_' = res.r
           /\ ringOut' = [op |-> "read", data |-> res.data,
                          expect |-> Take(ringFifo, size)]
           /\ ringFifo' = Drop(ringFifo, size)
    /\ UNCHANGED <<capacity_, buffer_, write_pos_, relock, ringHung, nextByte>>
    /\ UNCHANGED notR

\* peek(data, size) with size > 0 returning.
RingPeekOp(size) ==
    /\ ~ringHung
    /\ relock = "proceeds"
    /\ ringOut' = [op |-> "peek",
                   data |-> RingPeek(buffer_, write_pos_, read_pos_, capacity_, size),
                   expect |-> Take(ringFifo, size)]
    /\ UNCHANGED <<capacity_, buffer_, write_pos_, read_pos_, relock, ringHung,
                   ringFifo, nextByte>>
    /\ UNCHANGED notR

\* clear() (lines 255-259).
RingClearOp ==
    /\ ~ringHung
    /\ read_pos_' = 0
    /\ write_pos_' = 0
    /\ ringFifo' = <<>>
    /\ ringOut' = [op |-> "clear", data |-> <<>>, expect |-> <<>>]
    /\ UNCHANGED <<capacity_, buffer_, relock, ringHung, nextByte>>
    /\ UNCHANGED notR

NoRingOut == [op |-> "none", data |-> <<>>, expect |-> <<>>]

\* CircularBuffer(capacity): make_unique<uint8_t[]> zero-fills the array.
RingConstructed(cap) ==
    /\ capacity_ = cap
    /\ buffer_ = [i \in 0..(cap - 1) |-> 0]
    /\ write_pos_ = 0
    /\ read_pos_ = 0
    /\ ringHung = FALSE
    /\ ringFifo = <<>>
    /\ ringOut = NoRingOut
    /\ nextByte = 0

----------------------------------------------------------------------------
(* MessageHeader and Message (AVServer_06_MessageProtocol.h) *)

\* 0xABCD1234 as the four bytes a little-endian host stores; the 32- and
\* 64-bit fields are kept as their bytes, as memcpy moves them.
MAGIC_NUMBER == <<52, 18, 205, 171>>
HEADER_SIZE == 20
MAX_PAYLOAD_SIZE == 104857600
FRAME_DATA == 0
HEARTBEAT == 200

\* a ^ b on n-bit operands, n a power of two: the lower and the upper half.
RECURSIVE BitXor(_, _, _)
BitXor(a, b, n) ==
    IF n = 1 THEN (a + b) % 2
    ELSE LET half == 2 ^ (n \div 2)
         IN  BitXor(a % half, b % half, n \div 2)
                + half * BitXor(a \div half, b \div half, n \div 2)

\* x with bit k inverted.
FlipBit(x, k) ==
    IF (x \div (2 ^ k)) % 2 = 1 THEN x - 2 ^ k ELSE x + 2 ^ k

\* x ^ 0xA001: bits 15, 13 and 0 are the ones set in 0xA001.
XorA001(x) == FlipBit(FlipBit(FlipBit(x, 0), 13), 15)

\* The inner loop of calculate_crc (lines 187-193) from round j on.
RECURSIVE CrcShift(_, _)
CrcShift(crc, j) ==
    IF j = 8 THEN crc
    ELSE IF crc % 2 = 1 THEN CrcShift(XorA001(crc \div 2), j + 1)
    ELSE CrcShift(crc \div 2, j + 1)

\* crc ^= data[i] (line 186): the byte meets the low eight bits of crc.
XorByte(crc, byte) == (crc \div 256) * 256 + BitXor(crc % 256, byte, 8)

\* The outer loop of calculate_crc (lines 185-194) over bytes lo..hi of data,
\* the object representation of the header; st is <<crc, lo, hi>> with crc the
\* value on entry to iteration lo.  The iterations lo..mid run first and
\* their result enters iteration mid + 1.
RECURSIVE CrcLoop(_, _)
CrcLoop(st, data) ==
    IF st[2] = st[3]
    THEN CrcShift(XorByte(st[1], data[st[2]]), 0)
    ELSE LET mid == (st[2] + st[3]) \div 2
         IN  CrcLoop(<<CrcLoop(<<st[1], st[2], mid>>, data), mid + 1, st[3]>>,
                     data)

\* The value v as n little-endian bytes, and back.
RECURSIVE ToBytes(_, _)
ToBytes(v, n) ==
    IF n = 0 THEN <<>> ELSE <<v % 256>> \o ToBytes(v \div 256, n - 1)

RECURSIVE FromBytes(_)
FromBytes(b) == IF b = <<>> THEN 0 ELSE Head(b) + 256 * FromBytes(Tail(b))

\* The struct has no packing directive, so uint32_t payload_size is aligned to
\* 4 and uint64_t timestamp to 8: magic is at bytes 0-3, type at 4-5,
\* payload_size at 8-11, timestamp at 16-23 and header_crc at 24-25.  Bytes
\* 6-7 and 12-15 are padding, which no constructor writes.  A header is the
\* record of its fields plus `pad`, the six padding bytes below offset 20.
\* ObjectBytes is the first HEADER_SIZE bytes of the object representation.
ObjectBytes(h) ==
    h.magic \o ToBytes(h.type, 2) \o SubSeq(h.pad, 1, 2)
        \o h.payload_size \o SubSeq(h.pad, 3, 6)
        \o SubSeq(h.timestamp, 1, 4)

\* Values the padding bytes of a fresh header can hold.
PaddingFill == {0, 204}

Padding(fill) == [k \in 1..6 |-> fill]

calculate_crc_type_only(h) == CrcLoop(<<65535, 1, 8>>, ObjectBytes(h))

\* calculate_crc() (lines 178-197): CRC over the first 18 bytes of the object.
calculate_crc(h) == CrcLoop(<<65535, 1, 18>>, ObjectBytes(h))

\* MessageHeader(msg_type, payload_sz, ts) (lines 128-138) on storage whose
\* padding bytes hold `fill`.
MessageHeader(msg_type, payload_sz, ts, fill) ==
    LET h == [magic |-> MAGIC_NUMBER, type |-> msg_type, pad |-> Padding(fill),
              payload_size |-> ToBytes(payload_sz, 4),
              timestamp |-> ToBytes(ts, 8), header_crc |-> 0]
    IN  [h EXCEPT !.header_crc = calculate_crc(h)]

\* MessageHeader::is_valid() (lines 150-167).
header_is_valid(h) ==
    IF h.magic # MAGIC_NUMBER THEN FALSE
    ELSE IF h.payload_size[4] >= 128
            \/ FromBytes(h.payload_size) > MAX_PAYLOAD_SIZE THEN FALSE
    ELSE IF h.header_crc # calculate_crc(h) THEN FALSE
    ELSE TRUE

\* serialize(buffer) (lines 208-217): memcpy(buffer, this, HEADER_SIZE).
serialize(h) == SubSeq(ObjectBytes(h), 1, HEADER_SIZE)

\* deserialize(buffer) (lines 227-234): memcpy(this, buffer, HEADER_SIZE)
\* overwrites object bytes 0-19 and leaves the rest of the object, the upper
\* half of timestamp and header_crc, as it was.
deserialize(h, buffer) ==
    [magic |-> SubSeq(buffer, 1, 4),
     type |-> FromBytes(SubSeq(buffer, 5, 6)),
     pad |-> SubSeq(buffer, 7, 8) \o SubSeq(buffer, 13, 16),
     payload_size |-> SubSeq(buffer, 9, 12),
     timestamp |-> SubSeq(buffer, 17, 20) \o SubSeq(h.timestamp, 5, 8),
     header_crc |-> h.header_crc]

\* Message() (lines 275-279).
DefaultMessage(fill) ==
    [header_ |-> MessageHeader(FRAME_DATA, 0, 0, fill), payload_ |-> <<>>,
     valid_ |-> TRUE]

\* Message(type, payload_size, timestamp) followed by set_payload(data, size)
\* (lines 288-297, 388-404).
NewMessage(type, payload, ts, fill) ==
    LET h == MessageHeader(type, Len(payload), ts, fill)
    IN  [header_ |-> [magic |-> h.magic, type |-> h.type, pad |-> h.pad,
                      payload_size |-> ToBytes(Len(payload), 4),
                      timestamp |-> h.timestamp, header_crc |-> h.header_crc],
         payload_ |-> payload, valid_ |-> TRUE]

\* Message::to_bytes() (lines 478-496).
to_bytes(m) == serialize(m.header_) \o m.payload_

\* Message::from_bytes(data, size) (lines 508-545): the result and the object
\* left behind.
from_bytes(m, data) ==
    IF Len(data) < HEADER_SIZE
    THEN [ok |-> FALSE, m |-> [m EXCEPT !.valid_ = FALSE]]
    ELSE LET h == deserialize(m.header_, data)
         IN  IF ~header_is_valid(h)
             THEN [ok |-> FALSE, m |-> [m EXCEPT !.header_ = h, !.valid_ = FALSE]]
             ELSE IF Len(data) < HEADER_SIZE + FromBytes(h.payload_size)
             THEN [ok |-> FALSE, m |-> [m EXCEPT !.header_ = h, !.valid_ = FALSE]]
             ELSE [ok |-> TRUE,
                   m |-> [header_ |-> h,
                          payload_ |-> SubSeq(data, HEADER_SIZE + 1,
                                              HEADER_SIZE
                                                + FromBytes(h.payload_size)),
                          valid_ |-> TRUE]]

\* What a message means to its receiver: type, payload and timestamp.
Content(m) ==
    [type |-> m.header_.type, payload |-> m.payload_,
     timestamp |-> m.header_.timestamp]

----------------------------------------------------------------------------
(* Connection receive path (AVServer_08_Connection.h) *)

RECV_BUF_SIZE == 4096

\* The local `MessageHeader header;` of try_extract_message (line 440) as its
\* default constructor leaves it, for each content of the padding bytes.
LocalHeaders == {MessageHeader(FRAME_DATA, 0, 0, fill) : fill \in PaddingFill}

\* try_extract_message(message) (lines 426-475) on the ring (buf, w, r, cap);
\* `local` is the default-constructed local header.  The result, the caller's
\* message, the ring indices left behind, whether the ring was cleared and how
\* many bytes read() removed.
try_extract_message(buf, w, r, cap, msg, local) ==
    LET none == [ok |-> FALSE, message |-> msg, w |-> w, r |-> r,
                 cleared |-> FALSE, taken |-> 0]
    IN  IF available_data(w, r, cap) < HEADER_SIZE THEN none
        ELSE
        LET header_buf == RingPeek(buf, w, r, cap, HEADER_SIZE)
        IN  IF Len(header_buf) # HEADER_SIZE THEN none
            ELSE
            LET header == deserialize(local, header_buf)
            IN  IF ~header_is_valid(header)
                THEN [none EXCEPT !.w = 0, !.r = 0, !.cleared = TRUE]
                ELSE
                LET total_needed == HEADER_SIZE + FromBytes(header.payload_size)
                IN  IF available_data(w, r, cap) < total_needed THEN none
                    ELSE
                    LET rd == RingRead(buf, w, r, cap, total_needed)
                    IN  IF Len(rd.data) # total_needed
                        THEN [none EXCEPT !.r = rd.r, !.taken = Len(rd.data)]
                        ELSE
                        LET fb == from_bytes(msg, rd.data)
                        IN  [ok |-> fb.ok, message |-> fb.m, w |-> w,
                             r |-> rd.r, cleared |-> FALSE,
                             taken |-> total_needed]

\* receive_message(message) (lines 240-271) when ::recv returns the next n
\* bytes of the stream: one write into recv_buffer_ and one call of
\* try_extract_message.  write() locks mutex_ and then calls the locking
\* available_data(): where that blocks, the thread never leaves write() and
\* the bytes it received are never stored.
ReceiveMessage(n, local) ==
    /\ connected_
    /\ ~ringHung
    /\ n >= 1 /\ n <= RECV_BUF_SIZE /\ recvPos + n <= Len(stream)
    /\ recvPos' = recvPos + n
    /\ IF relock = "deadlock"
       THEN /\ ringHung' = TRUE
            /\ UNCHANGED <<buffer_, write_pos_, read_pos_, message, yielded,
                           ringClears, firstClearAt, bytesDropped, bytesTaken>>
       ELSE LET recv_buf == SubSeq(stream, recvPos + 1, recvPos + n)
                wr == RingWrite(buffer_, write_pos_, read_pos_, capacity_,
                                recv_buf)
                ex == try_extract_message(wr.buf, wr.w, read_pos_, capacity_,
                                          message, local)
            IN  /\ buffer_' = wr.buf
                /\ write_pos_' = ex.w
                /\ read_pos_' = ex.r
                /\ message' = ex.message
                /\ yielded' = IF ex.ok THEN Append(yielded, Content(ex.message))
                              ELSE yielded
                /\ ringClears' = ringClears + (IF ex.cleared THEN 1 ELSE 0)
                /\ firstClearAt' = IF ex.cleared /\ firstClearAt = -1
                                   THEN recvPos + n ELSE firstClearAt
                /\ bytesDropped' = bytesDropped + (n - wr.n)
                /\ bytesTaken' = bytesTaken + ex.taken
                /\ UNCHANGED ringHung
    /\ UNCHANGED <<connected_, stream, streamMsgs, capacity_, relock,
                   ringFifo, ringOut, nextByte>>
    /\ UNCHANGED notC

\* receive_message(message) when the peer has closed after its last byte:
\* ::recv returns 0 (lines 250-254).
ReceiveEof ==
    /\ connected_
    /\ ~ringHung
    /\ recvPos = Len(stream)
    /\ connected_' = FALSE
    /\ UNCHANGED <<stream, streamMsgs, recvPos, message, yielded, ringClears,
                   firstClearAt, bytesDropped, bytesTaken>>
    /\ UNCHANGED <<rvars, notC>>

\* What the peer sends: data frames without payload and heartbeats that carry
\* 1..MaxPayload bytes.
MsgKinds ==
    {[type |-> FRAME_DATA, payload |-> <<>>]}
        \cup {[type |-> HEARTBEAT, payload |-> [k \in 1..n |-> 7]] :
                 n \in 1..MaxPayload}
GarbageLens == {0, MaxGarbage}
Garbage(j) == [k \in 1..j |-> 255]

RECURSIVE Concat(_)
Concat(seqs) == IF seqs = <<>> THEN <<>> ELSE Head(seqs) \o Concat(Tail(seqs))

\* The peer builds each message with Message(type, size, 0) and set_payload
\* and sends to_bytes() of it.
Encoded(kinds, fill) ==
    [i \in 1..Len(kinds) |->
        to_bytes(NewMessage(kinds[i].type, kinds[i].payload, 0, fill))]

Framed(kinds, fill, j) ==
    LET enc == Encoded(kinds, fill)
    IN  [i \in 1..Len(kinds) |->
            [content |-> [type |-> kinds[i].type, payload |-> kinds[i].payload,
                          timestamp |-> ToBytes(0, 8)],
             at |-> j + Len(Concat(SubSeq(enc, 1, i - 1))),
             len |-> Len(enc[i])]]

----------------------------------------------------------------------------
(* Accepting clients and fanning messages out to them                      *)
(* (AVServer_07_TcpServer.h, AVServer_09_AVServer.h,                       *)
(*  AVServer_16_StreamingService.h, AVServer_15_MediaProcessor.h)          *)

max_connections == 1000

Clients == 1..NumClients
Msgs == 1..MaxFanMsgs

\* The elements of a set of connection ids in the order std::map iterates.
RECURSIVE InOrder(_)
InOrder(S) ==
    IF S = {} THEN <<>>
    ELSE LET least == CHOOSE c \in S : \A d \in S : c <= d
         IN  <<least>> \o InOrder(S \ {least})

\* ::send inside Connection::send (lines 329-343) returns once the socket
\* takes the bytes.  The peer of stuckConn never reads: its socket takes
\* SendBufCap messages and then blocks every further send.
CanSend(c) == c # stuckConn \/ sndbuf < SendBufCap

SendReturns(c) ==
    sndbuf' = IF c = stuckConn THEN sndbuf + 1 ELSE sndbuf

\* accept_loop(): ::accept returns a new client, which gets the next id
\* (lines 459-483).
Accept ==
    /\ apc.pc = "accept"
    /\ next_connection_id_ <= NumClients
    /\ apc' = [pc |-> "insert", conn |-> next_connection_id_]
    /\ next_connection_id_' = next_connection_id_ + 1
    /\ UNCHANGED <<connections_, clients_, statsOwner, connOwner, dpc, bpc,
                   tasks, message_queue_, nextMsg, sentTo, accounted,
                   stuckConn, sndbuf, broadcasts>>
    /\ UNCHANGED notF

\* accept_loop(): the block under connections_mutex_ (lines 486-496).
AcceptInsert ==
    /\ apc.pc = "insert"
    /\ connOwner = "none"
    /\ IF Cardinality(connections_) < max_connections
       THEN /\ connections_' = connections_ \cup {apc.conn}
            /\ apc' = [apc EXCEPT !.pc = "on_connected"]
       ELSE /\ apc' = [pc |-> "accept", conn |-> 0]
            /\ UNCHANGED connections_
    /\ UNCHANGED <<next_connection_id_, clients_, statsOwner, connOwner, dpc,
                   bpc, tasks, message_queue_, nextMsg, sentTo, accounted,
                   stuckConn, sndbuf, broadcasts>>
    /\ UNCHANGED notF

\* AVServer::on_client_connected (lines 584-598), called by accept_loop: the
\* lock_guard on stats_mutex_ lives until the function returns;
\* register_client runs its own short critical section on clients_mutex_.
OnClientConnected ==
    /\ apc.pc = "on_connected"
    /\ statsOwner = "none"
    /\ statsOwner' = "accept"
    /\ clients_' = clients_ \cup {apc.conn}
    /\ apc' = [apc EXCEPT !.pc = "welcome_send"]
    /\ UNCHANGED <<next_connection_id_, connections_, connOwner, dpc, bpc,
                   tasks, message_queue_, nextMsg, sentTo, accounted,
                   stuckConn, sndbuf, broadcasts>>
    /\ UNCHANGED notF

\* on_client_connected: connection->send(welcome) returns (lines 601-603),
\* stats_mutex_ is released, and accept_loop queues handle_client for the pool
\* (lines 504-512).
WelcomeSent ==
    /\ apc.pc = "welcome_send"
    /\ CanSend(apc.conn)
    /\ SendReturns(apc.conn)
    /\ statsOwner' = "none"
    /\ tasks' = [tasks EXCEPT ![apc.conn] = "queued"]
    /\ apc' = [pc |-> "accept", conn |-> 0]
    /\ UNCHANGED <<next_connection_id_, connections_, clients_, connOwner, dpc,
                   bpc, message_queue_, nextMsg, sentTo, accounted, stuckConn,
                   broadcasts>>
    /\ UNCHANGED notF

\* handle_client (lines 524-529) on a pool thread: on_client_disconnected
\* unregisters the client from the streaming service (AVServer lines 671-680).
HandleClientUnregister(c) ==
    /\ tasks[c] = "queued"
    /\ clients_' = clients_ \ {c}
    /\ tasks' = [tasks EXCEPT ![c] = "erase"]
    /\ UNCHANGED <<next_connection_id_, connections_, statsOwner, connOwner,
                   apc, dpc, bpc, message_queue_, nextMsg, sentTo, accounted,
                   stuckConn, sndbuf, broadcasts>>
    /\ UNCHANGED notF

\* handle_client (lines 531-535): erase the connection under
\* connections_mutex_.
HandleClientErase(c) ==
    /\ tasks[c] = "erase"
    /\ connOwner = "none"
    /\ connections_' = connections_ \ {c}
    /\ tasks' = [tasks EXCEPT ![c] = "done"]
    /\ UNCHANGED <<next_connection_id_, clients_, statsOwner, connOwner, apc,
                   dpc, bpc, message_queue_, nextMsg, sentTo, accounted,
                   stuckConn, sndbuf, broadcasts>>
    /\ UNCHANGED notF

\* The pipeline pushes a processed message (MediaProcessor lines 355, 384).
Produce ==
    /\ nextMsg <= MaxFanMsgs
    /\ message_queue_' = Append(message_queue_, nextMsg)
    /\ nextMsg' = nextMsg + 1
    /\ UNCHANGED <<next_connection_id_, connections_, clients_, statsOwner,
                   connOwner, apc, dpc, bpc, tasks, sentTo, accounted,
                   stuckConn, sndbuf, broadcasts>>
    /\ UNCHANGED notF

\* AVServer::distribution_loop (lines 817-822): try_get_message() returned a
\* message and get_all_clients() a copy of the session map.
DistributeGet ==
    /\ dpc.pc = "idle"
    /\ message_queue_ # <<>>
    /\ message_queue_' = Tail(message_queue_)
    /\ dpc' = [pc |-> "next", msg |-> Head(message_queue_),
               todo |-> InOrder(clients_)]
    /\ UNCHANGED <<next_connection_id_, connections_, clients_, statsOwner,
                   connOwner, apc, bpc, tasks, nextMsg, sentTo, accounted,
                   stuckConn, sndbuf, broadcasts>>
    /\ UNCHANGED notF

\* distribution_loop (lines 823-828): the next session of the copy;
\* get_connection() locks connections_mutex_ for the lookup.
DistributeNext ==
    /\ dpc.pc = "next"
    /\ IF dpc.todo = <<>>
       THEN dpc' = [pc |-> "idle", msg |-> 0, todo |-> <<>>]
       ELSE /\ connOwner = "none"
            /\ IF Head(dpc.todo) \in connections_
               THEN dpc' = [dpc EXCEPT !.pc = "send"]
               ELSE dpc' = [dpc EXCEPT !.todo = Tail(dpc.todo)]
    /\ UNCHANGED <<next_connection_id_, connections_, clients_, statsOwner,
                   connOwner, apc, bpc, tasks, message_queue_, nextMsg, sentTo,
                   accounted, stuckConn, sndbuf, broadcasts>>
    /\ UNCHANGED notF

\* distribution_loop (line 829): conn->send(*msg) returns.
DistributeSent ==
    /\ dpc.pc = "send"
    /\ CanSend(Head(dpc.todo))
    /\ SendReturns(Head(dpc.todo))
    /\ sentTo' = [sentTo EXCEPT ![Head(dpc.todo)] = Append(@, dpc.msg)]
    /\ dpc' = [dpc EXCEPT !.pc = "stats"]
    /\ UNCHANGED <<next_connection_id_, connections_, clients_, statsOwner,
                   connOwner, apc, bpc, tasks, message_queue_, nextMsg,
                   accounted, stuckConn, broadcasts>>
    /\ UNCHANGED notF

\* distribution_loop (lines 832-841): the counters under stats_mutex_.
DistributeStats ==
    /\ dpc.pc = "stats"
    /\ statsOwner = "none"
    /\ dpc' = [dpc EXCEPT !.pc = "next", !.todo = Tail(dpc.todo)]
    /\ UNCHANGED <<next_connection_id_, connections_, clients_, statsOwner,
                   connOwner, apc, bpc, tasks, message_queue_, nextMsg, sentTo,
                   accounted, stuckConn, sndbuf, broadcasts>>
    /\ UNCHANGED notF

\* StreamingService::distribution_loop (lines 414-426) on its own thread takes
\* a message from the same queue; distribute_message (lines 437-462) only
\* updates counters.
ServiceDistribute ==
    /\ message_queue_ # <<>>
    /\ message_queue_' = Tail(message_queue_)
    /\ accounted' = accounted \cup {Head(message_queue_)}
    /\ UNCHANGED <<next_connection_id_, connections_, clients_, statsOwner,
                   connOwner, apc, dpc, bpc, tasks, nextMsg, sentTo, stuckConn,
                   sndbuf, broadcasts>>
    /\ UNCHANGED notF

\* TcpServer::broadcast (lines 392-393): lock connections_mutex_ and start
\* the loop over connections_.
BroadcastLock ==
    /\ bpc.pc = "idle"
    /\ broadcasts < MaxBroadcasts
    /\ connOwner = "none"
    /\ connOwner' = "broadcast"
    /\ broadcasts' = broadcasts + 1
    /\ bpc' = [pc |-> "next", todo |-> InOrder(connections_)]
    /\ UNCHANGED <<next_connection_id_, connections_, clients_, statsOwner,
                   apc, dpc, tasks, message_queue_, nextMsg, sentTo, accounted,
                   stuckConn, sndbuf>>
    /\ UNCHANGED notF

\* broadcast (lines 394-399): the next connection, or the end of the loop
\* where the lock_guard releases connections_mutex_.
BroadcastNext ==
    /\ bpc.pc = "next"
    /\ IF bpc.todo = <<>>
       THEN /\ bpc' = [pc |-> "idle", todo |-> <<>>]
            /\ connOwner' = "none"
       ELSE /\ bpc' = [bpc EXCEPT !.pc = "send"]
            /\ UNCHANGED connOwner
    /\ UNCHANGED <<next_connection_id_, connections_, clients_, statsOwner,
                   apc, dpc, tasks, message_queue_, nextMsg, sentTo, accounted,
                   stuckConn, sndbuf, broadcasts>>
    /\ UNCHANGED notF

\* broadcast (line 396): conn->send(message) returns.
BroadcastSent ==
    /\ bpc.pc = "send"
    /\ CanSend(Head(bpc.todo))
    /\ SendReturns(Head(bpc.todo))
    /\ bpc' = [pc |-> "next", todo |-> Tail(bpc.todo)]
    /\ UNCHANGED <<next_connection_id_, connections_, clients_, statsOwner,
                   connOwner, apc, dpc, tasks, message_queue_, nextMsg, sentTo,
                   accounted, stuckConn, broadcasts>>
    /\ UNCHANGED notF

\* TcpServer (lines 196-201), AVServer and StreamingService as constructed and
\* started, with no client yet.
FanConstructed ==
    /\ next_connection_id_ = 1
    /\ connections_ = {}
    /\ clients_ = {}
    /\ statsOwner = "none"
    /\ connOwner = "none"
    /\ apc = [pc |-> "accept", conn |-> 0]
    /\ dpc = [pc |-> "idle", msg |-> 0, todo |-> <<>>]
    /\ bpc = [pc |-> "idle", todo |-> <<>>]
    /\ tasks = [c \in Clients |-> "none"]
    /\ message_queue_ = <<>>
    /\ nextMsg = 1
    /\ sentTo = [c \in Clients |-> <<>>]
    /\ accounted = {}
    /\ sndbuf = 0
    /\ broadcasts = 0

FanNext ==
    \/ Accept
    \/ AcceptInsert
    \/ OnClientConnected
    \/ WelcomeSent
    \/ \E c \in Clients : HandleClientUnregister(c)
    \/ \E c \in Clients : HandleClientErase(c)
    \/ Produce
    \/ DistributeGet
    \/ DistributeNext
    \/ DistributeSent
    \/ DistributeStats
    \/ ServiceDistribute
    \/ BroadcastLock
    \/ BroadcastNext
    \/ BroadcastSent

----------------------------------------------------------------------------
(* Message objects: construction, mutators, round trip, corruption *)

\* Message(type, payload_size, timestamp) (lines 288-297): the header records
\* payload_size, payload_ is empty (only its capacity is reserved).
MessageCtor(type, payload_size, ts, fill) ==
    [header_ |-> MessageHeader(type, payload_size, ts, fill),
     payload_ |-> <<>>, valid_ |-> TRUE]

\* set_payload(data, size) (lines 388-404); the header CRC is not recomputed.
set_payload(m, data) ==
    IF Len(data) = 0
    THEN [m EXCEPT !.payload_ = <<>>, !.header_.payload_size = ToBytes(0, 4)]
    ELSE [m EXCEPT !.payload_ = data,
                   !.header_.payload_size = ToBytes(Len(data), 4)]

\* append_payload(data, size) (lines 442-456).
append_payload(m, data) ==
    IF Len(data) = 0 THEN m
    ELSE [m EXCEPT !.payload_ = m.payload_ \o data,
                   !.header_.payload_size =
                        ToBytes(Len(m.payload_) + Len(data), 4)]

\* clear_payload() (lines 461-464).
clear_payload(m) ==
    [m EXCEPT !.payload_ = <<>>, !.header_.payload_size = ToBytes(0, 4)]

\* set_type(type) (lines 341-344) and set_timestamp(ts) (lines 360-363)
\* recompute the header CRC.
set_type(m, type) ==
    LET h == [m.header_ EXCEPT !.type = type]
    IN  [m EXCEPT !.header_ = [h EXCEPT !.header_crc = calculate_crc(h)]]

set_timestamp(m, ts) ==
    LET h == [m.header_ EXCEPT !.timestamp = ts]
    IN  [m EXCEPT !.header_ = [h EXCEPT !.header_crc = calculate_crc(h)]]

\* Message::is_valid() (lines 564-566).
message_is_valid(m) == m.valid_ /\ header_is_valid(m.header_)

\* The inputs: message types, timestamps as the eight bytes of a uint64_t
\* (0, one below and one at or above 2^32), and payload data.
MsgTypes == {FRAME_DATA, HEARTBEAT}
Timestamps == {ToBytes(0, 8), ToBytes(1000, 8), <<0, 0, 0, 0, 1, 0, 0, 0>>}
PayloadData(n) == [i \in 1..n |-> i]

NoTrip == [done |-> FALSE, ok |-> FALSE]
NoProbe == [field |-> "none", valid |-> FALSE]

\* A message is built first, then serialized, then parsed; a header is
\* corrupted before the message is serialized.
Building == wire = <<>> /\ probe = NoProbe

SetPayloadOp ==
    /\ Building
    /\ \E n \in 0..MaxMsgPayload : src_msg' = set_payload(src_msg, PayloadData(n))
    /\ UNCHANGED <<wire, dst_msg, rtrip, probe>>
    /\ UNCHANGED notM

AppendPayloadOp ==
    /\ Building
    /\ \E n \in 0..MaxMsgPayload :
         /\ Len(src_msg.payload_) + n <= MaxMsgPayload
         /\ src_msg' = append_payload(src_msg, PayloadData(n))
    /\ UNCHANGED <<wire, dst_msg, rtrip, probe>>
    /\ UNCHANGED notM

ClearPayloadOp ==
    /\ Building
    /\ src_msg' = clear_payload(src_msg)
    /\ UNCHANGED <<wire, dst_msg, rtrip, probe>>
    /\ UNCHANGED notM

SetTypeOp ==
    /\ Building
    /\ \E type \in MsgTypes : src_msg' = set_type(src_msg, type)
    /\ UNCHANGED <<wire, dst_msg, rtrip, probe>>
    /\ UNCHANGED notM

SetTimestampOp ==
    /\ Building
    /\ \E ts \in Timestamps : src_msg' = set_timestamp(src_msg, ts)
    /\ UNCHANGED <<wire, dst_msg, rtrip, probe>>
    /\ UNCHANGED notM

\* bytes = src_msg.to_bytes()
ToBytesOp ==
    /\ Building
    /\ wire' = to_bytes(src_msg)
    /\ UNCHANGED <<src_msg, dst_msg, rtrip, probe>>
    /\ UNCHANGED notM

\* dst_msg.from_bytes(bytes) on the bytes src_msg produced.
FromBytesOp ==
    /\ wire # <<>>
    /\ ~rtrip.done
    /\ LET r == from_bytes(dst_msg, wire)
       IN  /\ dst_msg' = r.m
           /\ rtrip' = [done |-> TRUE, ok |-> r.ok]
    /\ UNCHANGED <<src_msg, wire, probe>>
    /\ UNCHANGED notM

\* The field that byte `at` (0-based) of the header object belongs to.
FieldAt(at) ==
    IF at <= 3 THEN "magic"
    ELSE IF at \in {6, 7} THEN "padding"
    ELSE "payload_size"

\* The header object with bit k of its byte `at` inverted; the bytes are put
\* back as memcpy would.
FlipHeaderBit(h, at, k) ==
    LET bytes == ObjectBytes(h)
    IN  deserialize(h, [bytes EXCEPT ![at + 1] = FlipBit(bytes[at + 1], k)])

\* One bit of a valid header is inverted, in magic (bytes 0-3), in
\* payload_size (bytes 8-11 of the object), or in bytes 6-7, where the
\* documented layout puts the low half of payload_size.
CorruptHeaderOp ==
    /\ Building
    /\ header_is_valid(src_msg.header_)
    /\ \E at \in (0..3) \cup (6..11), k \in 0..7 :
         probe' = [field |-> FieldAt(at),
                   valid |-> header_is_valid(
                                FlipHeaderBit(src_msg.header_, at, k))]
    /\ UNCHANGED <<src_msg, wire, dst_msg, rtrip>>
    /\ UNCHANGED notM

MsgNext ==
    \/ SetPayloadOp
    \/ AppendPayloadOp
    \/ ClearPayloadOp
    \/ SetTypeOp
    \/ SetTimestampOp
    \/ ToBytesOp
    \/ FromBytesOp
    \/ CorruptHeaderOp

----------------------------------------------------------------------------
(* FrameBufferPool and the threads that use it                             *)
(* (AVServer_03_FrameBuffer.h, AVServer_11_VideoCapture.h,                 *)
(*  AVServer_15_MediaProcessor.h)                                          *)

\* FrameBufferPool(pool_size) (lines 217-232): pool_size frames available.
FrameBufferPool(pool_size) ==
    [available |-> pool_size, stats_total_get_ |-> 0, stats_total_return_ |-> 0]

\* get() (lines 249-274): a pooled frame if there is one, else a new frame.
PoolGet(pool) ==
    [pool EXCEPT !.available = IF @ > 0 THEN @ - 1 ELSE @,
                 !.stats_total_get_ = @ + 1]

\* return_frame(frame) (lines 284-302): the frame goes back unless the pool
\* already holds pool_size frames.
return_frame(pool, pool_size) ==
    [pool EXCEPT !.available = IF @ < pool_size THEN @ + 1 ELSE @,
                 !.stats_total_return_ = @ + 1]

\* capture_loop (lines 453-457): frame_pool_->get().
CaptureGet ==
    /\ pool_pc.capture = "idle"
    /\ video_pool.stats_total_get_ < MaxGets
    /\ video_pool' = PoolGet(video_pool)
    /\ pool_pc' = [pool_pc EXCEPT !.capture = "captured"]
    /\ UNCHANGED <<encode_pool, frame_queue_>>
    /\ UNCHANGED notP

\* capture_loop (lines 460-464): capture_frame failed, the frame goes back.
CaptureFail ==
    /\ pool_pc.capture = "captured"
    /\ video_pool' = return_frame(video_pool, PoolSize)
    /\ pool_pc' = [pool_pc EXCEPT !.capture = "idle"]
    /\ UNCHANGED <<encode_pool, frame_queue_>>
    /\ UNCHANGED notP

\* capture_loop (lines 468-476): the queue is full, the oldest frame is
\* popped and returned to the pool.
CaptureEvict ==
    /\ pool_pc.capture = "captured"
    /\ frame_queue_ >= BufferSize
    /\ frame_queue_' = frame_queue_ - 1
    /\ video_pool' = return_frame(video_pool, PoolSize)
    /\ UNCHANGED <<encode_pool, pool_pc>>
    /\ UNCHANGED notP

\* capture_loop (line 479): frame_queue_.push(frame).
CapturePush ==
    /\ pool_pc.capture = "captured"
    /\ frame_queue_ < BufferSize
    /\ frame_queue_' = frame_queue_ + 1
    /\ pool_pc' = [pool_pc EXCEPT !.capture = "idle"]
    /\ UNCHANGED <<video_pool, encode_pool>>
    /\ UNCHANGED notP

\* process_loop (lines 342-344): try_get_video_frame() found a frame.
ProcessTakeRaw ==
    /\ pool_pc.process = "idle"
    /\ frame_queue_ > 0
    /\ frame_queue_' = frame_queue_ - 1
    /\ pool_pc' = [pool_pc EXCEPT !.process = "raw"]
    /\ UNCHANGED <<video_pool, encode_pool>>
    /\ UNCHANGED notP

\* process_loop (line 347): frame_pool->get() for the encoded frame.
ProcessGetEncoded ==
    /\ pool_pc.process = "raw"
    /\ encode_pool.stats_total_get_ < MaxGets
    /\ encode_pool' = PoolGet(encode_pool)
    /\ pool_pc' = [pool_pc EXCEPT !.process = "encoding"]
    /\ UNCHANGED <<video_pool, frame_queue_>>
    /\ UNCHANGED notP

\* process_loop (lines 348-365): encode_video returned true; the message is
\* pushed and the encoded frame returned.  When it returned false (the engine
\* is not running, CompressionEngine lines 302-304) the body of the if is
\* skipped and the encoded frame is dropped.
ProcessEncoded(ok) ==
    /\ pool_pc.process = "encoding"
    /\ encode_pool' = IF ok THEN return_frame(encode_pool, PoolSize)
                             ELSE encode_pool
    /\ pool_pc' = [pool_pc EXCEPT !.process = "return_raw"]
    /\ UNCHANGED <<video_pool, frame_queue_>>
    /\ UNCHANGED notP

\* process_loop (line 367): the raw frame goes back to the pool of the video
\* capture, which get_frame_pool() hands out.
ProcessReturnRaw ==
    /\ pool_pc.process = "return_raw"
    /\ video_pool' = return_frame(video_pool, PoolSize)
    /\ pool_pc' = [pool_pc EXCEPT !.process = "idle"]
    /\ UNCHANGED <<encode_pool, frame_queue_>>
    /\ UNCHANGED notP

\* Frames of each pool that some thread or the queue holds.
VideoFramesOut ==
    frame_queue_
        + (IF pool_pc.capture = "captured" THEN 1 ELSE 0)
        + (IF pool_pc.process # "idle" THEN 1 ELSE 0)

EncodedFramesOut == IF pool_pc.process = "encoding" THEN 1 ELSE 0

PoolInit ==
    /\ video_pool = FrameBufferPool(PoolSize)
    /\ encode_pool = FrameBufferPool(PoolSize)
    /\ frame_queue_ = 0
    /\ pool_pc = [capture |-> "idle", process |-> "idle"]

PoolNext ==
    \/ CaptureGet
    \/ CaptureFail
    \/ CaptureEvict
    \/ CapturePush
    \/ ProcessTakeRaw
    \/ ProcessGetEncoded
    \/ \E ok \in BOOLEAN : ProcessEncoded(ok)
    \/ ProcessReturnRaw

----------------------------------------------------------------------------
(* ThreadPool (AVServer_04_ThreadPool.h)                                   *)

Workers == 1..NumWorkers
Callers == 1..NumCallers
TaskIds == 1..MaxTasks

\* What running a task can do: return, throw an object derived from
\* std::exception, throw an object of any other type.
Outcomes == {"returns", "throws_exception", "throws_other"}

NoTask == [id |-> 0, outcome |-> "returns"]

\* An exception left worker(), the entry function of a std::thread:
\* std::terminate ends the process, and no thread takes another step.
Aborted == \E w \in Workers : workers[w].pc = "terminated"

\* Whether the catch clause of worker() handles the outcome of task().
Catches(outcome) == outcome = "throws_exception"

\* add_work(): queue_.push(std::bind(f, args...)).
AddWork(outcome) ==
    /\ ~Aborted
    /\ tp_log.added < MaxTasks
    /\ thread_pool' = [thread_pool EXCEPT
           !.queue_ = Append(@, [id |-> tp_log.added + 1, outcome |-> outcome])]
    /\ tp_log' = [tp_log EXCEPT !.added = @ + 1]
    /\ UNCHANGED <<workers, callers>>
    /\ UNCHANGED notT

\* worker(): while (!stop_.load()).
WorkerCheck(w) ==
    /\ ~Aborted
    /\ workers[w].pc = "check"
    /\ workers' = [workers EXCEPT
           ![w].pc = IF thread_pool.stop_ THEN "exited" ELSE "pop"]
    /\ UNCHANGED <<thread_pool, callers, tp_log>>
    /\ UNCHANGED notT

\* worker(): queue_.pop(task) blocks until the wait predicate holds, then
\* hands out the front task or reports the shutdown.
WorkerPop(w) ==
    /\ ~Aborted
    /\ workers[w].pc = "pop"
    /\ WaitPred(thread_pool.queue_, thread_pool.shutdown_)
    /\ LET r == PopBody(thread_pool.queue_, thread_pool.shutdown_) IN
         /\ thread_pool' = [thread_pool EXCEPT !.queue_ = r.q]
         /\ workers' = [workers EXCEPT
                ![w].pc = IF r.ok THEN "got" ELSE "check",
                ![w].task = IF r.ok THEN r.item ELSE NoTask]
         /\ tp_log' = [tp_log EXCEPT
                !.takenAfterStop = IF r.ok /\ thread_pool.stop_
                                   THEN @ \cup {r.item.id} ELSE @]
    /\ UNCHANGED callers
    /\ UNCHANGED notT

\* worker(): active_tasks_++ and the call task().
WorkerBegin(w) ==
    /\ ~Aborted
    /\ workers[w].pc = "got"
    /\ thread_pool' = [thread_pool EXCEPT !.active_tasks_ = @ + 1]
    /\ workers' = [workers EXCEPT ![w].pc = "run"]
    /\ UNCHANGED <<callers, tp_log>>
    /\ UNCHANGED notT

\* worker(): task() ends. It returns and active_tasks_-- follows, or it
\* throws: catch (const std::exception&) runs active_tasks_--, and what that
\* clause does not catch leaves worker().
WorkerEnd(w) ==
    /\ ~Aborted
    /\ workers[w].pc = "run"
    /\ LET outcome == workers[w].task.outcome IN
         IF outcome = "returns" \/ Catches(outcome)
         THEN /\ thread_pool' = [thread_pool EXCEPT !.active_tasks_ = @ - 1]
              /\ workers' = [workers EXCEPT
                     ![w].pc = "check",
                     ![w].task = NoTask,
                     ![w].failed = outcome # "returns"]
              /\ tp_log' = [tp_log EXCEPT
                     !.completed = @ \cup {workers[w].task.id}]
         ELSE /\ workers' = [workers EXCEPT ![w].pc = "terminated",
                                            ![w].failed = TRUE]
              /\ UNCHANGED <<thread_pool, tp_log>>
    /\ UNCHANGED callers
    /\ UNCHANGED notT

\* The tasks inside task() right now.
RunningTasks == {workers[w].task.id : w \in {v \in Workers : workers[v].pc = "run"}}

\* shutdown(): stop_.compare_exchange_strong(expected, true); the caller that
\* finds stop_ set returns at once.
ShutdownCas(c) ==
    /\ ~Aborted
    /\ callers[c] = "idle"
    /\ IF thread_pool.stop_
       THEN /\ callers' = [callers EXCEPT ![c] = "returned"]
            /\ UNCHANGED <<thread_pool, tp_log>>
       ELSE /\ callers' = [callers EXCEPT ![c] = "won"]
            /\ thread_pool' = [thread_pool EXCEPT !.stop_ = TRUE]
            /\ tp_log' = [tp_log EXCEPT !.runningAtStop = RunningTasks]
    /\ UNCHANGED workers
    /\ UNCHANGED notT

\* shutdown(): queue_.shutdown() sets the flag of the queue and wakes every
\* thread that waits in pop.
ShutdownQueue(c) ==
    /\ ~Aborted
    /\ callers[c] = "won"
    /\ thread_pool' = [thread_pool EXCEPT !.shutdown_ = TRUE]
    /\ callers' = [callers EXCEPT ![c] = "joining"]
    /\ UNCHANGED <<workers, tp_log>>
    /\ UNCHANGED notT

\* shutdown(): thread.join() on every worker.
ShutdownJoin(c) ==
    /\ ~Aborted
    /\ callers[c] = "joining"
    /\ \A w \in Workers : workers[w].pc = "exited"
    /\ callers' = [callers EXCEPT ![c] = "returned"]
    /\ UNCHANGED <<thread_pool, workers, tp_log>>
    /\ UNCHANGED notT

\* ThreadPool(num_threads): stop_(false), active_tasks_(0), an empty queue,
\* and num_threads threads that enter worker().
TPInit ==
    /\ thread_pool = [stop_ |-> FALSE, active_tasks_ |-> 0,
                      queue_ |-> <<>>, shutdown_ |-> FALSE]
    /\ workers = [w \in Workers |->
                    [pc |-> "check", task |-> NoTask, failed |-> FALSE]]
    /\ callers = [c \in Callers |-> "idle"]
    /\ tp_log = [added |-> 0, completed |-> {}, runningAtStop |-> {},
                 takenAfterStop |-> {}]

WorkerNext ==
    \/ \E w \in Workers : WorkerCheck(w)
    \/ \E w \in Workers : WorkerPop(w)
    \/ \E w \in Workers : WorkerBegin(w)
    \/ \E w \in Workers : WorkerEnd(w)

JoinNext ==
    \/ \E c \in Callers : ShutdownQueue(c)
    \/ \E c \in Callers : ShutdownJoin(c)

TPNext ==
    \/ \E outcome \in Outcomes : AddWork(outcome)
    \/ \E c \in Callers : ShutdownCas(c)
    \/ WorkerNext
    \/ JoinNext

----------------------------------------------------------------------------
(* Connection ids: std::atomic<uint32_t> next_connection_id_               *)
(* (AVServer_07_TcpServer.h)                                               *)

\* A uint32_t is held as its four bytes, least significant first.
UINT32_MAX == <<255, 255, 255, 255>>

\* x++ on a uint32_t: the value that x holds afterwards, modulo 2^32.
NoInc32(b) == b

Inc32(b) ==
    LET carry == {i \in 1..4 : \A j \in 1..(i - 1) : b[j] = 255} IN
      [i \in 1..4 |->
         IF i \notin carry THEN b[i]
         ELSE IF b[i] = 255 THEN 0 ELSE b[i] + 1]

\* a < b on uint32_t.
Less32(a, b) ==
    \E i \in 1..4 : a[i] < b[i] /\ \A j \in (i + 1)..4 : a[j] = b[j]

\* The counter of a server just constructed (1), and of a server that has
\* accepted 4294967293 sockets since.
IdStarts == {ToBytes(1, 4), <<254, 255, 255, 255>>}

\* accept_loop(), one accepted socket: connection_id = next_connection_id_++,
\* then under connections_mutex_ the connection enters the registry, or is
\* closed when the registry already holds config_.max_connections.
AcceptId ==
    /\ Len(lifetime.assigned) < MaxAccepts
    /\ LET connection_id == lifetime.next_connection_id_
           fits == Cardinality(lifetime.connections_) < lifetime.max_connections
       IN lifetime' = [lifetime EXCEPT
              !.next_connection_id_ = Inc32(@),
              !.connections_ = IF fits THEN @ \cup {connection_id} ELSE @,
              !.rejected = IF fits THEN @ ELSE @ \cup {connection_id},
              !.assigned = Append(@, connection_id),
              !.before_overflow =
                  IF lifetime.overflowed THEN @ ELSE @ + 1,
              !.overflowed = @ \/ connection_id = UINT32_MAX]
    /\ UNCHANGED notI

\* handle_client(): connections_.erase(connection->get_id()) once the peer is
\* gone.
EraseId(id) ==
    /\ id \in lifetime.connections_
    /\ lifetime' = [lifetime EXCEPT !.connections_ = @ \ {id},
                                    !.removed = @ \cup {id}]
    /\ UNCHANGED notI

\* TcpServer(config): next_connection_id_(1) and an empty registry; the
\* counter may also stand where a long run has left it.
IdInit ==
    \E start \in IdStarts, limit \in 1..MaxConfigConnections :
        lifetime = [next_connection_id_ |-> start,
                    max_connections |-> limit,
                    connections_ |-> {},
                    assigned |-> <<>>,
                    rejected |-> {},
                    removed |-> {},
                    before_overflow |-> 0,
                    overflowed |-> FALSE]

IdNext ==
    \/ AcceptId
    \/ \E id \in lifetime.connections_ : EraseId(id)

----------------------------------------------------------------------------
(* TcpServer from start() to stop()                                        *)
(* (AVServer_07_TcpServer.h, AVServer_08_Connection.h, AVServer_09_AVServer.h) *)

SrvIds == 1..MaxSockets
SrvWorkers == 1..NumSrvWorkers

\* ::close() of the listening socket while the accept thread is blocked in
\* ::accept() on it: the call fails at once, or it stays blocked.
CloseOutcomes == {"accept_fails", "accept_blocked"}

NoConn == [connected_ |-> FALSE, socket_open |-> FALSE, closes |-> 0,
           close_called |-> FALSE]

\* Connection::close(): the compare-exchange on connected_, closesocket and
\* the clearing of the buffer; a call that finds connected_ false does nothing.
close(c) ==
    IF c.connected_
    THEN [c EXCEPT !.connected_ = FALSE, !.socket_open = FALSE,
                   !.closes = @ + 1, !.close_called = TRUE]
    ELSE [c EXCEPT !.close_called = TRUE]

\* The threads that hold a shared_ptr to connection id, next to the registry.
HeldByThread(s, id) ==
    \/ s.accept.conn = id
    \/ \E w \in SrvWorkers : s.workers[w].conn = id

\* The last shared_ptr to a connection goes away: ~Connection() calls close().
Released(s, id) ==
    IF id \in s.connections_ \/ HeldByThread(s, id)
    THEN s
    ELSE [s EXCEPT !.conns[id] = close(@)]

\* accept_loop(): connections_.size() < config_.max_connections.
BelowLimitOrAt(size, limit) == size <= limit

BelowLimit(size, limit) == size < limit

\* TcpServer::start() succeeds and AVServer::start() sets its running_.
SrvStart ==
    /\ ~srv.started
    /\ srv' = [srv EXCEPT !.started = TRUE, !.running_ = TRUE,
                          !.facade_running_ = TRUE, !.listen_open = TRUE,
                          !.accept = [pc |-> "loop", conn |-> 0]]
    /\ UNCHANGED notS

\* accept_loop(): while (running_.load()).
AcceptLoop ==
    /\ srv.accept.pc = "loop"
    /\ srv' = [srv EXCEPT !.accept.pc = IF srv.running_ THEN "accept" ELSE "exited"]
    /\ UNCHANGED notS

\* accept_loop(): ::accept returns a socket; connection_id =
\* next_connection_id_++ and the Connection is constructed.
AcceptSocket ==
    /\ srv.accept.pc = "accept"
    /\ srv.listen_open
    /\ srv.next_connection_id_ <= MaxSockets
    /\ LET id == srv.next_connection_id_ IN
         srv' = [srv EXCEPT
             !.next_connection_id_ = @ + 1,
             !.conns[id] = [connected_ |-> TRUE, socket_open |-> TRUE,
                            closes |-> 0, close_called |-> FALSE],
             !.accept = [pc |-> "insert", conn |-> id]]
    /\ UNCHANGED notS

\* accept_loop(): ::accept fails because stop() closed the listening socket;
\* running_ is false and the loop is left.
AcceptFails ==
    /\ srv.accept.pc = "accept"
    /\ ~srv.listen_open
    /\ srv.close_outcome = "accept_fails"
    /\ srv' = [srv EXCEPT !.accept.pc = IF srv.running_ THEN "loop" ELSE "exited"]
    /\ UNCHANGED notS

\* accept_loop(): under connections_mutex_ the connection enters the registry,
\* or it is closed and the loop continues.
SrvAcceptInsert ==
    /\ srv.accept.pc = "insert"
    /\ LET id == srv.accept.conn IN
         IF BelowLimit(Cardinality(srv.connections_), srv.max_connections)
         THEN srv' = [srv EXCEPT !.connections_ = @ \cup {id},
                                 !.accept.pc = "hook"]
         ELSE srv' = [srv EXCEPT !.conns[id] = close(@),
                                 !.rejected = @ \cup {id},
                                 !.accept = [pc |-> "loop", conn |-> 0]]
    /\ UNCHANGED notS

\* accept_loop(): on_client_connected_(connection); the hook registers the
\* subscriber and sends a welcome message, and a failed send clears connected_.
AcceptHook(send_ok) ==
    /\ srv.accept.pc = "hook"
    /\ LET id == srv.accept.conn IN
         srv' = [srv EXCEPT
             !.connect_hooks = @ \cup {id},
             !.conns[id].connected_ = @ /\ send_ok,
             !.accept.pc = "submit"]
    /\ UNCHANGED notS

\* accept_loop(): thread_pool_.add_work(...) with a weak_ptr to the connection;
\* the iteration ends and its shared_ptr goes away.
AcceptSubmit ==
    /\ srv.accept.pc = "submit"
    /\ LET id == srv.accept.conn
           s == [srv EXCEPT !.queue_ = Append(@, id),
                            !.submitted = @ \cup {id},
                            !.accept = [pc |-> "loop", conn |-> 0]]
       IN srv' = Released(s, id)
    /\ UNCHANGED notS

\* ThreadPool::worker(): while (!stop_.load()).
SrvWorkerCheck(w) ==
    /\ srv.started
    /\ srv.workers[w].pc = "check"
    /\ srv' = [srv EXCEPT !.workers[w].pc = IF srv.pool_stop_ THEN "exited" ELSE "pop"]
    /\ UNCHANGED notS

\* ThreadPool::worker(): queue_.pop(task), then the task locks its weak_ptr
\* and returns when the connection is gone.
SrvWorkerPop(w) ==
    /\ srv.workers[w].pc = "pop"
    /\ WaitPred(srv.queue_, srv.pool_shutdown_)
    /\ LET r == PopBody(srv.queue_, srv.pool_shutdown_)
           alive == r.ok /\ (r.item \in srv.connections_ \/ HeldByThread(srv, r.item))
       IN srv' = [srv EXCEPT
              !.queue_ = r.q,
              !.workers[w] = IF alive THEN [pc |-> "handle", conn |-> r.item]
                             ELSE [pc |-> "check", conn |-> 0]]
    /\ UNCHANGED notS

\* handle_client(): on_client_disconnected_(connection).
HandleClientHook(w) ==
    /\ srv.workers[w].pc = "handle"
    /\ LET id == srv.workers[w].conn IN
         srv' = [srv EXCEPT
             !.disconnect_hooks[id] = @ + 1,
             !.gone_while_connected =
                 IF srv.conns[id].connected_ THEN @ \cup {id} ELSE @,
             !.workers[w].pc = "erase"]
    /\ UNCHANGED notS

\* handle_client(): connections_.erase(id) under connections_mutex_; the task
\* returns and its shared_ptr goes away.
SrvHandleClientErase(w) ==
    /\ srv.workers[w].pc = "erase"
    /\ LET id == srv.workers[w].conn
           s == [srv EXCEPT
                    !.connections_ = @ \ {id},
                    !.gone_while_connected =
                        IF srv.conns[id].connected_ /\ id \in srv.connections_
                        THEN @ \cup {id} ELSE @,
                    !.workers[w] = [pc |-> "check", conn |-> 0]]
       IN srv' = Released(s, id)
    /\ UNCHANGED notS

\* TcpServer::stop(): the compare-exchange on running_. The call that finds
\* running_ false returns at once; the one that sets it false goes on.
StopCas(s) ==
    IF s.running_
    THEN [s EXCEPT !.running_ = FALSE, !.teardowns = @ + 1,
                   !.stopper = "close_listen"]
    ELSE [s EXCEPT !.stop_returned = @ + 1]

\* A thread calls AVServer::stop(): it wins or loses the compare-exchange on
\* the facade's running_; the winner stops the other components first.
FacadeStop ==
    /\ srv.stop_calls < MaxStopCalls
    /\ srv' = IF srv.facade_running_
              THEN [srv EXCEPT !.stop_calls = @ + 1,
                               !.facade_running_ = FALSE,
                               !.facade_teardowns = @ + 1,
                               !.facade_in_stop = TRUE]
              ELSE [srv EXCEPT !.stop_calls = @ + 1, !.stop_returned = @ + 1]
    /\ UNCHANGED notS

\* AVServer::stop() reaches tcp_server_.stop().
FacadeStopTcp ==
    /\ srv.facade_in_stop
    /\ srv' = StopCas([srv EXCEPT !.facade_in_stop = FALSE])
    /\ UNCHANGED notS

\* A thread calls TcpServer::stop() itself (~TcpServer() does).
ListenerStop ==
    /\ srv.stop_calls < MaxStopCalls
    /\ srv' = StopCas([srv EXCEPT !.stop_calls = @ + 1])
    /\ UNCHANGED notS

\* TcpServer::stop(): closesocket(listen_socket_).
StopCloseListen ==
    /\ srv.stopper = "close_listen"
    /\ srv' = [srv EXCEPT !.listen_open = FALSE, !.stopper = "join_accept"]
    /\ UNCHANGED notS

\* TcpServer::stop(): accept_thread_.join().
StopJoinAccept ==
    /\ srv.stopper = "join_accept"
    /\ srv.accept.pc = "exited"
    /\ srv' = [srv EXCEPT !.stopper = "close_all"]
    /\ UNCHANGED notS

\* TcpServer::stop(): under connections_mutex_, close() on every connection
\* and connections_.clear().
StopCloseAll ==
    /\ srv.stopper = "close_all"
    /\ srv' = [srv EXCEPT
                  !.conns = [id \in SrvIds |->
                               IF id \in srv.connections_
                               THEN close(srv.conns[id]) ELSE srv.conns[id]],
                  !.connections_ = {},
                  !.stopper = "pool_stop"]
    /\ UNCHANGED notS

\* ThreadPool::shutdown(): the compare-exchange on stop_.
StopPoolStop ==
    /\ srv.stopper = "pool_stop"
    /\ srv' = [srv EXCEPT !.pool_stop_ = TRUE, !.stopper = "pool_queue"]
    /\ UNCHANGED notS

\* ThreadPool::shutdown(): queue_.shutdown().
StopPoolQueue ==
    /\ srv.stopper = "pool_queue"
    /\ srv' = [srv EXCEPT !.pool_shutdown_ = TRUE, !.stopper = "join_workers"]
    /\ UNCHANGED notS

\* ThreadPool::shutdown(): join every worker; stop() returns.
StopJoinWorkers ==
    /\ srv.stopper = "join_workers"
    /\ \A w \in SrvWorkers : srv.workers[w].pc = "exited"
    /\ srv' = [srv EXCEPT !.stopper = "returned", !.stop_returned = @ + 1]
    /\ UNCHANGED notS

\* TcpServer(config) inside a constructed AVServer: not running, an empty
\* registry, next_connection_id_ = 1, the pool's threads inside worker().
SrvInit ==
    \E outcome \in CloseOutcomes, limit \in 1..MaxConfigConnections :
        srv = [started |-> FALSE, running_ |-> FALSE, facade_running_ |-> FALSE,
               listen_open |-> FALSE, close_outcome |-> outcome,
               max_connections |-> limit, next_connection_id_ |-> 1,
               connections_ |-> {}, conns |-> [id \in SrvIds |-> NoConn],
               queue_ |-> <<>>, pool_stop_ |-> FALSE, pool_shutdown_ |-> FALSE,
               accept |-> [pc |-> "idle", conn |-> 0],
               workers |-> [w \in SrvWorkers |-> [pc |-> "check", conn |-> 0]],
               stop_calls |-> 0, stop_returned |-> 0,
               facade_in_stop |-> FALSE, stopper |-> "none",
               connect_hooks |-> {}, disconnect_hooks |-> [id \in SrvIds |-> 0],
               gone_while_connected |-> {}, rejected |-> {}, submitted |-> {},
               teardowns |-> 0, facade_teardowns |-> 0]

AcceptSteps ==
    \/ AcceptLoop
    \/ AcceptFails
    \/ SrvAcceptInsert
    \/ \E send_ok \in BOOLEAN : AcceptHook(send_ok)
    \/ AcceptSubmit

SrvWorkerSteps(w) ==
    \/ SrvWorkerCheck(w)
    \/ SrvWorkerPop(w)
    \/ HandleClientHook(w)
    \/ SrvHandleClientErase(w)

StopSteps ==
    \/ FacadeStopTcp
    \/ StopCloseListen
    \/ StopJoinAccept
    \/ StopCloseAll
    \/ StopPoolStop
    \/ StopPoolQueue
    \/ StopJoinWorkers

SrvNext ==
    \/ SrvStart
    \/ AcceptSocket
    \/ AcceptSteps
    \/ \E w \in SrvWorkers : SrvWorkerSteps(w)
    \/ FacadeStop
    \/ ListenerStop
    \/ StopSteps

----------------------------------------------------------------------------
(* Connection::send (AVServer_08_Connection.h)                             *)

\* send(): while (remaining > 0).
SendsOnce(remaining) == FALSE

KeepsSending(remaining) == remaining > 0

\* send(): the test of connected_ and message.to_bytes(); a connection that is
\* not connected returns false before anything is serialized.
SendEnter ==
    /\ snd.pc = "call"
    /\ snd' = IF ~snd.connected_
              THEN [snd EXCEPT !.pc = "returned", !.ret = FALSE]
              ELSE [snd EXCEPT !.bytes = to_bytes(snd.message),
                               !.total_sent = 0,
                               !.remaining = Len(to_bytes(snd.message)),
                               !.pc = "loop"]
    /\ UNCHANGED notN

\* send(): one ::send(socket_, data + total_sent, remaining, 0) that takes
\* `sent` bytes; total_sent += sent, remaining -= sent.
SendWrite(sent) ==
    /\ snd.pc = "loop"
    /\ KeepsSending(snd.remaining)
    /\ sent \in 1..snd.remaining
    /\ snd' = [snd EXCEPT
           !.socket = @ \o SubSeq(snd.bytes, snd.total_sent + 1,
                                  snd.total_sent + sent),
           !.total_sent = @ + sent,
           !.remaining = @ - sent,
           !.writes = @ + 1]
    /\ UNCHANGED notN

\* send(): ::send returns 0 or -1: connected_ = false, return false.
SendError ==
    /\ snd.pc = "loop"
    /\ KeepsSending(snd.remaining)
    /\ snd' = [snd EXCEPT !.connected_ = FALSE, !.failed = TRUE,
                          !.pc = "returned", !.ret = FALSE]
    /\ UNCHANGED notN

\* send(): the loop ends, return true.
SendReturn ==
    /\ snd.pc = "loop"
    /\ ~KeepsSending(snd.remaining)
    /\ snd' = [snd EXCEPT !.pc = "returned", !.ret = TRUE]
    /\ UNCHANGED notN

\* A connection, connected or not, and the message handed to send().
SendInit ==
    \E connected \in BOOLEAN, n \in 0..MaxSendPayload, fill \in PaddingFill,
       type \in MsgTypes :
        snd = [connected_ |-> connected, was_connected |-> connected,
               message |-> set_payload(MessageCtor(type, 0, 0, fill), PayloadData(n)),
               bytes |-> <<>>, total_sent |-> 0, remaining |-> 0,
               socket |-> <<>>, writes |-> 0, failed |-> FALSE,
               pc |-> "call", ret |-> FALSE]

SendNext ==
    \/ SendEnter
    \/ \E sent \in 1..(HEADER_SIZE + MaxSendPayload) : SendWrite(sent)
    \/ SendError
    \/ SendReturn

----------------------------------------------------------------------------
(* capture_loop and its frame queue                                        *)
(* (AVServer_11_VideoCapture.h, AVServer_12_AudioCapture.h)                *)

\* Frames are AVFrame objects, numbered as they are allocated; an object holds
\* the number of the capture that filled it, or 0 after clear().
Holds(c, frames) == [k \in 1..Len(frames) |-> c.content[frames[k]]]

\* capture_loop(): while (frame_queue_.size() >= config_.buffer_size).
QueueOverfull(size, buffer_size) == size > buffer_size

QueueFull(size, buffer_size) == size >= buffer_size

\* FrameBufferPool::return_frame(frame): clear() and, while the pool is not
\* full, back into available_frames_.
ReturnToPool(c, frame) ==
    [c EXCEPT !.content[frame] = 0,
              !.available_frames_ =
                  IF Len(@) < c.pool_size_ THEN Append(@, frame) ELSE @]

\* capture_loop(): frame_pool_->get() takes the front of the pool or
\* allocates a frame, and clears it.
CapGet ==
    /\ capture.pc = "get"
    /\ capture.frame_count_ < MaxCaptures
    /\ LET pooled == capture.available_frames_ # <<>>
           frame == IF pooled THEN Head(capture.available_frames_) ELSE capture.allocated + 1
       IN capture' = [capture EXCEPT
              !.available_frames_ = IF pooled THEN Tail(@) ELSE @,
              !.allocated = IF pooled THEN @ ELSE @ + 1,
              !.content = IF pooled THEN [@ EXCEPT ![frame] = 0]
                          ELSE Append(@, 0),
              !.frame = frame,
              !.pc = "capture"]
    /\ UNCHANGED notA

\* capture_loop(): capture_frame(frame) fills the frame and counts it, or
\* fails and the frame goes back to the pool.
CapCapture(ok) ==
    /\ capture.pc = "capture"
    /\ capture' = IF ok
              THEN [capture EXCEPT !.frame_count_ = @ + 1,
                               !.content[capture.frame] = capture.frame_count_ + 1,
                               !.pc = "queue"]
              ELSE [ReturnToPool(capture, capture.frame) EXCEPT !.frame = 0, !.pc = "get"]
    /\ UNCHANGED notA

\* capture_loop(): the test of the eviction loop.
CapTest ==
    /\ capture.pc = "queue"
    /\ capture' = [capture EXCEPT !.pc =
           IF QueueFull(Len(capture.frame_queue_), capture.buffer_size)
           THEN "try_pop" ELSE "push"]
    /\ UNCHANGED notA

\* capture_loop(): try_pop the oldest frame, return it to the pool,
\* dropped_frames_++; an empty queue ends the loop.
CapEvict ==
    /\ capture.pc = "try_pop"
    /\ IF capture.frame_queue_ = <<>>
       THEN capture' = [capture EXCEPT !.pc = "push"]
       ELSE LET old_frame == Head(capture.frame_queue_)
                c == [capture EXCEPT
                         !.frame_queue_ = Tail(@),
                         !.dropped_frames_ = @ + 1,
                         !.evicted = Append(@, capture.content[old_frame]),
                         !.pc = "queue"]
            IN capture' = ReturnToPool(c, old_frame)
    /\ UNCHANGED notA

\* capture_loop(): frame_queue_.push(frame).
CapPush ==
    /\ capture.pc = "push"
    /\ capture' = [capture EXCEPT !.frame_queue_ = Append(@, capture.frame),
                                  !.pushed = @ + 1,
                                  !.frame = 0,
                                  !.pc = "get"]
    /\ UNCHANGED notA

\* try_get_frame(): the consumer takes the front of the queue and reads it.
TryGetFrame ==
    /\ capture.raw = 0
    /\ capture.frame_queue_ # <<>>
    /\ capture' = [capture EXCEPT
           !.frame_queue_ = Tail(@),
           !.raw = Head(capture.frame_queue_),
           !.taken = Append(@, capture.content[Head(capture.frame_queue_)]),
           !.first_take = IF capture.taken = <<>>
                          THEN [pushed |-> capture.pushed,
                                dropped |-> capture.dropped_frames_,
                                queued |-> Holds(capture, capture.frame_queue_)]
                          ELSE @]
    /\ UNCHANGED notA

\* The consumer is done with the frame: return_frame(raw) on the capture's
\* pool.
ReturnRaw ==
    /\ capture.raw # 0
    /\ capture' = [ReturnToPool(capture, capture.raw) EXCEPT !.raw = 0]
    /\ UNCHANGED notA

\* VideoCapture(config, frame_pool): its own pool of config.buffer_size
\* frames or the pool it is given, an empty queue, frame_count_ =
\* dropped_frames_ = 0.
CapInit ==
    \E buffer_size \in 1..MaxBufferSize, pool_size \in 1..MaxBufferSize :
        capture = [buffer_size |-> buffer_size,
               pool_size_ |-> pool_size,
               allocated |-> pool_size,
               content |-> [k \in 1..pool_size |-> 0],
               available_frames_ |-> [k \in 1..pool_size |-> k],
               frame_queue_ |-> <<>>,
               frame_count_ |-> 0, dropped_frames_ |-> 0,
               pc |-> "get", frame |-> 0, raw |-> 0,
               pushed |-> 0, evicted |-> <<>>, taken |-> <<>>,
               first_take |-> [pushed |-> 0, dropped |-> 0, queued |-> <<>>]]

CapNext ==
    \/ CapGet
    \/ \E ok \in BOOLEAN : CapCapture(ok)
    \/ CapTest
    \/ CapEvict
    \/ CapPush
    \/ TryGetFrame
    \/ ReturnRaw

----------------------------------------------------------------------------
(* MediaProcessor::process_loop between the captures and message_queue_    *)
(* (AVServer_15_MediaProcessor.h, AVServer_14_CompressionEngine.h,         *)
(*  AVServer_11_VideoCapture.h, AVServer_12_AudioCapture.h)                *)

Kinds == {"video", "audio"}

\* process_loop() handles a video frame, then an audio frame.
NextKind(kind) == IF kind = "video" THEN "audio" ELSE "video"

\* SafeQueue::push(item): queue_.push(item) puts the item at the back.
EnqueueFront(q, item) == <<item>> \o q

Enqueue(q, item) == Append(q, item)

\* capture_loop() of either capture: a frame from the pool was captured; a
\* frame carries the number of its capture.
PipeCapture(kind) ==
    /\ pipe.capture[kind].pc = "get"
    /\ pipe.capture[kind].frame_count_ < MaxFrames
    /\ pipe' = [pipe EXCEPT !.capture[kind].frame_count_ = @ + 1,
                            !.capture[kind].frame = pipe.capture[kind].frame_count_ + 1,
                            !.capture[kind].pc = "queue"]
    /\ UNCHANGED notE

\* capture_loop(): while (frame_queue_.size() >= config_.buffer_size).
PipeTest(kind) ==
    /\ pipe.capture[kind].pc = "queue"
    /\ pipe' = [pipe EXCEPT !.capture[kind].pc =
           IF QueueFull(Len(pipe.capture[kind].frame_queue_), QueueBound)
           THEN "try_pop" ELSE "push"]
    /\ UNCHANGED notE

\* capture_loop(): try_pop the oldest frame and return it to the pool.
PipeEvict(kind) ==
    /\ pipe.capture[kind].pc = "try_pop"
    /\ LET popped == TryPopBody(pipe.capture[kind].frame_queue_)
       IN pipe' = [pipe EXCEPT
              !.capture[kind].frame_queue_ = popped.q,
              !.capture[kind].dropped_frames_ = IF popped.ok THEN @ + 1 ELSE @,
              !.capture[kind].pool_returns = IF popped.ok THEN @ + 1 ELSE @,
              !.capture[kind].pc = IF popped.ok THEN "queue" ELSE "push"]
    /\ UNCHANGED notE

\* capture_loop(): frame_queue_.push(frame).
PipePush(kind) ==
    /\ pipe.capture[kind].pc = "push"
    /\ pipe' = [pipe EXCEPT
           !.capture[kind].frame_queue_ = Enqueue(@, pipe.capture[kind].frame),
           !.capture[kind].frame = 0,
           !.capture[kind].pc = "get"]
    /\ UNCHANGED notE

\* CompressionEngine::start() and stop() set and clear is_running_.
EngineStart ==
    /\ ~pipe.is_running_
    /\ pipe' = [pipe EXCEPT !.is_running_ = TRUE]
    /\ UNCHANGED notE

EngineStop ==
    /\ pipe.is_running_
    /\ pipe' = [pipe EXCEPT !.is_running_ = FALSE]
    /\ UNCHANGED notE

\* encode_video / encode_audio(input, output): false when the engine is not
\* running or a frame is missing, else the output is filled, update_stats
\* counts it and the result is true.
Encode(p, input, output) == p.is_running_ /\ input # 0 /\ output

\* process_loop(): try_get_video_frame() / try_get_audio_frame(); without a
\* frame the loop goes on to the other kind.
ProcTake(kind) ==
    /\ pipe.process.pc = "take"
    /\ pipe.process.kind = kind
    /\ LET popped == TryPopBody(pipe.capture[kind].frame_queue_)
       IN pipe' = [pipe EXCEPT
              !.capture[kind].frame_queue_ = popped.q,
              !.process.raw = popped.item,
              !.process.pc = IF popped.ok THEN "get" ELSE "take",
              !.process.kind = IF popped.ok THEN kind ELSE NextKind(kind)]
    /\ UNCHANGED notE

\* process_loop(): auto encoded = frame_pool->get().
ProcGet(kind) ==
    /\ pipe.process.pc = "get"
    /\ pipe.process.kind = kind
    /\ pipe' = [pipe EXCEPT !.frame_pool.stats_total_get_ = @ + 1,
                            !.process.encoded = TRUE,
                            !.process.pc = "encode"]
    /\ UNCHANGED notE

\* process_loop(): if (encoded && encode(raw, encoded)) { push the message,
\* count it, frame_pool->return_frame(encoded); }.  Nothing is done when the
\* encoder returned false.
ProcEncode(kind) ==
    /\ pipe.process.pc = "encode"
    /\ pipe.process.kind = kind
    /\ LET ok == Encode(pipe, pipe.process.raw, pipe.process.encoded)
           msg == [type |-> kind, source |-> pipe.process.raw]
       IN pipe' = [pipe EXCEPT
              !.stats_.total_frames_encoded = IF ok THEN @ + 1 ELSE @,
              !.message_queue_ = IF ok THEN Enqueue(@, msg) ELSE @,
              !.frame_pool.stats_total_return_ = IF ok THEN @ + 1 ELSE @,
              !.failed = IF ok THEN @ ELSE Append(@, msg),
              !.process.encoded = FALSE,
              !.process.pc = "return_raw"]
    /\ UNCHANGED notE

\* process_loop(): the raw frame goes back to the pool of its capture, and
\* the loop goes on to the other kind.
ProcReturnRaw(kind) ==
    /\ pipe.process.pc = "return_raw"
    /\ pipe.process.kind = kind
    /\ pipe' = [pipe EXCEPT !.capture[kind].pool_returns = @ + 1,
                            !.process.raw = 0,
                            !.process.kind = NextKind(kind),
                            !.process.pc = "take"]
    /\ UNCHANGED notE

\* MediaProcessor::start() has started process_loop over two running
\* captures and a running engine; nothing was captured yet.  No consumer
\* takes from message_queue_ here, so it holds every message ever pushed.
PipeInit ==
    pipe = [capture |-> [kind \in Kinds |->
                [frame_queue_ |-> <<>>, frame_count_ |-> 0,
                 dropped_frames_ |-> 0, pool_returns |-> 0,
                 frame |-> 0, pc |-> "get"]],
            is_running_ |-> TRUE,
            stats_ |-> [total_frames_encoded |-> 0, failed_encodings |-> 0],
            frame_pool |-> [stats_total_get_ |-> 0, stats_total_return_ |-> 0],
            process |-> [pc |-> "take", kind |-> "video", raw |-> 0,
                         encoded |-> FALSE],
            message_queue_ |-> <<>>,
            failed |-> <<>>]

PipeNext ==
    \/ \E kind \in Kinds :
          \/ PipeCapture(kind)
          \/ PipeTest(kind)
          \/ PipeEvict(kind)
          \/ PipePush(kind)
          \/ ProcTake(kind)
          \/ ProcGet(kind)
          \/ ProcEncode(kind)
          \/ ProcReturnRaw(kind)
    \/ EngineStart
    \/ EngineStop

----------------------------------------------------------------------------
(* AVServer::on_message_received and its handlers (AVServer_09_AVServer.h, *)
(* AVServer_16_StreamingService.h, AVServer_14_CompressionEngine.h)        *)

\* enum class MessageType (AVServer_06_MessageProtocol.h).
VIDEO_FRAME == 1
AUDIO_FRAME == 2
START_STREAM == 100
STOP_STREAM == 101
SET_BITRATE == 102
SET_QUALITY == 103
HEARTBEAT_ACK == 201
ACK == 202

DispConns == {1, 2}

\* The types on_message_received has a case for, and those a client can send.
HandledTypes ==
    {VIDEO_FRAME, AUDIO_FRAME, START_STREAM, STOP_STREAM, SET_BITRATE, HEARTBEAT}

MessageTypes == HandledTypes \cup {FRAME_DATA, SET_QUALITY, HEARTBEAT_ACK}

\* Payloads of set-bitrate messages: n bytes of one of two patterns, with
\* bytes on both sides of 128.
PayloadSeeds == {1, 2}

PatternBytes(seed, n) == [i \in 1..n |-> (37 * seed * i) % 256]

\* The messages that are dispatched: set-bitrate with a payload of any length
\* up to MaxBitrateLen, the other types without payload.
DispatchMessages ==
    {[type |-> SET_BITRATE, payload |-> PatternBytes(seed, n)] :
        seed \in PayloadSeeds, n \in 0..MaxBitrateLen}
    \cup {[type |-> t, payload |-> <<>>] : t \in MessageTypes \ {SET_BITRATE}}

\* A uint32_t is held in two 16-bit halves, value = hi * 65536 + lo.
\* register_client(id, addr, 5000000) and CompressionConfig start at 5 Mbps.
DefaultBitrate == [lo |-> 5000000 % 65536, hi |-> 5000000 \div 65536]

\* handle_set_bitrate(): bitrate |= payload[i] << (8 * i) for i = 0..3.
ParseBitrateBigEndian(payload) ==
    [lo |-> payload[4] + 256 * payload[3],
     hi |-> payload[2] + 256 * payload[1]]

ParseBitrate(payload) ==
    [lo |-> payload[1] + 256 * payload[2],
     hi |-> payload[3] + 256 * payload[4]]

\* Message(type, 0, timestamp): a message without payload.
Reply(type) == [type |-> type, payload |-> <<>>]

\* StreamingService::set_client_bitrate_limit(client_id, bitrate): the cap of
\* that client, if it is registered.
set_client_bitrate_limit(clients, client_id, bitrate) ==
    IF client_id \in DOMAIN clients
    THEN [clients EXCEPT ![client_id].bitrate_limit = bitrate]
    ELSE clients

\* on_message_received(): switch (msg_type); the default case only logs.
HandlerForAckDefault(type) ==
    CASE type = SET_BITRATE -> "set_bitrate"
      [] type = HEARTBEAT -> "heartbeat"
      [] type \in {VIDEO_FRAME, AUDIO_FRAME} -> "frame"
      [] OTHER -> "ack"

HandlerFor(type) ==
    CASE type = SET_BITRATE -> "set_bitrate"
      [] type = HEARTBEAT -> "heartbeat"
      [] type \in {START_STREAM, STOP_STREAM} -> "ack"
      [] type \in {VIDEO_FRAME, AUDIO_FRAME} -> "frame"
      [] OTHER -> "idle"

\* on_message_received(connection, message): the message is counted and the
\* switch picks the handler.
Dispatch(c, msg) ==
    /\ disp.handler[c].pc = "idle"
    /\ disp.total_messages_received < MaxDispatches
    /\ disp' = [disp EXCEPT
           !.total_messages_received = @ + 1,
           !.dispatched[c] = Append(@, msg.type),
           !.handler[c] =
               [pc |-> HandlerFor(msg.type), message |-> msg]]
    /\ UNCHANGED notD

\* handle_video_frame / handle_audio_frame: the frame is counted.
HandleFrame(c) ==
    /\ disp.handler[c].pc = "frame"
    /\ disp' = [disp EXCEPT !.frames_received = @ + 1,
                            !.handler[c].pc = "idle"]
    /\ UNCHANGED notD

\* handle_set_bitrate(): with 4 bytes or more the bitrate is parsed and given
\* to the streaming service; a shorter payload is only acknowledged.
HandleSetBitrate(c) ==
    /\ disp.handler[c].pc = "set_bitrate"
    /\ LET payload == disp.handler[c].message.payload
       IN IF Len(payload) >= 4
          THEN disp' = [disp EXCEPT
                   !.clients_ = set_client_bitrate_limit(@, c, ParseBitrate(payload)),
                   !.handler[c].pc = "target"]
          ELSE disp' = [disp EXCEPT !.handler[c].pc = "ack"]
    /\ UNCHANGED notD

\* handle_set_bitrate(): compression_engine_->set_target_bitrate(bitrate).
HandleSetTarget(c) ==
    /\ disp.handler[c].pc = "target"
    /\ disp' = [disp EXCEPT
           !.target_bitrate = ParseBitrate(disp.handler[c].message.payload),
           !.handler[c].pc = "ack"]
    /\ UNCHANGED notD

\* handle_set_bitrate(), handle_start_stream(), handle_stop_stream():
\* connection->send(Message(ACK, 0, now)).
HandleAck(c) ==
    /\ disp.handler[c].pc = "ack"
    /\ disp' = [disp EXCEPT !.sent[c] = Append(@, Reply(ACK)),
                            !.handler[c].pc = "idle"]
    /\ UNCHANGED notD

\* handle_heartbeat(): connection->send_heartbeat_ack().
HandleHeartbeat(c) ==
    /\ disp.handler[c].pc = "heartbeat"
    /\ disp' = [disp EXCEPT !.sent[c] = Append(@, Reply(HEARTBEAT_ACK)),
                            !.handler[c].pc = "idle"]
    /\ UNCHANGED notD

\* on_client_disconnected(connection): unregister_client(id), once the
\* connection handles no message.
DispUnregister(c) ==
    /\ disp.handler[c].pc = "idle"
    /\ c \in DOMAIN disp.clients_
    /\ disp' = [disp EXCEPT !.clients_ =
           [id \in DOMAIN disp.clients_ \ {c} |-> disp.clients_[id]]]
    /\ UNCHANGED notD

\* The server runs: every connection was registered by on_client_connected
\* with the default cap, and the engine has its configured target.
DispInit ==
    disp = [clients_ |-> [id \in DispConns |-> [bitrate_limit |-> DefaultBitrate]],
            target_bitrate |-> DefaultBitrate,
            handler |-> [c \in DispConns |->
                            [pc |-> "idle", message |-> Reply(FRAME_DATA)]],
            sent |-> [c \in DispConns |-> <<>>],
            dispatched |-> [c \in DispConns |-> <<>>],
            total_messages_received |-> 0,
            frames_received |-> 0]

DispNext ==
    \E c \in DispConns :
        \/ \E msg \in DispatchMessages : Dispatch(c, msg)
        \/ HandleFrame(c)
        \/ HandleSetBitrate(c)
        \/ HandleSetTarget(c)
        \/ HandleAck(c)
        \/ HandleHeartbeat(c)
        \/ DispUnregister(c)

----------------------------------------------------------------------------
(* AVServer::start and AVServer::stop (AVServer_09_AVServer.h) over the    *)
(* components' start() and stop()                                          *)

\* What TcpServer::start() can meet: every call succeeds, or ::socket, ::bind
\* or ::listen fails.
ListenOutcomes == {"ok", "socket_fails", "bind_fails", "listen_fails"}

\* The components stop() goes through after the two joins, in its order.
StopSequence == <<"distributor", "pipeline", "encoder", "capture">>

\* TcpServer::start(): the socket is created, bound and put to listen; only
\* then running_ = true and the accept thread starts.  A failed bind or
\* listen closes the socket and returns false.
TcpStartEarlyFlag(outcome) ==
    [running_ |-> TRUE, listen_open |-> outcome = "ok",
     accept_thread |-> IF outcome = "ok" THEN "running" ELSE "none"]

TcpStart(outcome) ==
    [running_ |-> outcome = "ok", listen_open |-> outcome = "ok",
     accept_thread |-> IF outcome = "ok" THEN "running" ELSE "none"]

\* start(): if (running_.load()) return true.
FacStartCall ==
    /\ fac.start = "idle"
    /\ fac' = [fac EXCEPT !.start = IF fac.running_ THEN "returned" ELSE "capture",
                          !.start_ret = IF fac.running_ THEN "true" ELSE @]
    /\ UNCHANGED notG

\* start(): capture_manager_->start(), which fails without a capture source
\* or when a capture does not start.
FacStartCapture(ok) ==
    /\ fac.start = "capture"
    /\ fac' = IF ok
              THEN [fac EXCEPT !.up = @ \cup {"capture"},
                               !.started = Append(@, "capture"),
                               !.start = "encoder"]
              ELSE [fac EXCEPT !.start = "returned", !.start_ret = "false"]
    /\ UNCHANGED notG

\* start(): compression_engine_->start() always returns true.
FacStartEncoder ==
    /\ fac.start = "encoder"
    /\ fac' = [fac EXCEPT !.up = @ \cup {"encoder"},
                          !.started = Append(@, "encoder"),
                          !.start = "pipeline"]
    /\ UNCHANGED notG

\* start(): media_processor_->start() wants capture and engine running.
FacStartPipeline ==
    /\ fac.start = "pipeline"
    /\ fac' = IF {"capture", "encoder"} \subseteq fac.up
              THEN [fac EXCEPT !.up = @ \cup {"pipeline"},
                               !.started = Append(@, "pipeline"),
                               !.start = "service"]
              ELSE [fac EXCEPT !.start = "returned", !.start_ret = "false"]
    /\ UNCHANGED notG

\* start(): streaming_service_->start() has its processor and starts its own
\* thread.
FacStartService ==
    /\ fac.start = "service"
    /\ fac' = [fac EXCEPT !.up = @ \cup {"distributor"},
                          !.started = Append(@, "distributor"),
                          !.start = "listener"]
    /\ UNCHANGED notG

\* start(): if (!tcp_server_.start()) return false.
FacStartListener(outcome) ==
    /\ fac.start = "listener"
    /\ LET l == TcpStart(outcome)
       IN fac' = IF l.accept_thread = "running"
                 THEN [fac EXCEPT !.listener = l,
                                  !.listen_outcome = outcome,
                                  !.started = Append(@, "listener"),
                                  !.start = "dist_thread"]
                 ELSE [fac EXCEPT !.listener = l,
                                  !.listen_outcome = outcome,
                                  !.start = "returned", !.start_ret = "false"]
    /\ UNCHANGED notG

\* start(): distribution_thread_ = std::thread(distribution_loop).
FacSpawnDist ==
    /\ fac.start = "dist_thread"
    /\ fac' = [fac EXCEPT !.dist = "test", !.start = "stats_thread"]
    /\ UNCHANGED notG

\* start(): stats_update_thread_ = std::thread(stats_update_loop).
FacSpawnStats ==
    /\ fac.start = "stats_thread"
    /\ fac' = [fac EXCEPT !.stats = "test",
                          !.started = Append(@, "stats"),
                          !.start = "set_running"]
    /\ UNCHANGED notG

\* start(): running_ = true; return true.
FacSetRunning ==
    /\ fac.start = "set_running"
    /\ fac' = [fac EXCEPT !.running_ = TRUE,
                          !.start = "returned", !.start_ret = "true"]
    /\ UNCHANGED notG

\* distribution_loop(): while (running_.load()).
DistTest ==
    /\ fac.dist = "test"
    /\ fac' = [fac EXCEPT !.dist = IF fac.running_ THEN "body" ELSE "exited"]
    /\ UNCHANGED notG

\* distribution_loop(): try_get_message(); with a message and an active
\* subscriber it calls conn->send(*msg), else it sleeps.
DistBody(sends) ==
    /\ fac.dist = "body"
    /\ fac' = [fac EXCEPT !.dist = IF sends THEN "send" ELSE "test"]
    /\ UNCHANGED notG

\* distribution_loop(): conn->send(*msg) returns once the socket has taken
\* the bytes or failed; on a socket that never becomes writable it does not.
DistSend ==
    /\ fac.dist = "send"
    /\ fac.writable
    /\ fac' = [fac EXCEPT !.dist = "test"]
    /\ UNCHANGED notG

\* stats_update_loop(): while (running_.load()) { ...; sleep 1 s }.
StatsTest ==
    /\ fac.stats = "test"
    /\ fac' = [fac EXCEPT !.stats = IF fac.running_ THEN "sleep" ELSE "exited"]
    /\ UNCHANGED notG

StatsSleep ==
    /\ fac.stats = "sleep"
    /\ fac' = [fac EXCEPT !.stats = "test"]
    /\ UNCHANGED notG

\* accept_loop(): it leaves once running_ is false and ::accept has returned,
\* which closing the listening socket brings about on some platforms only.
FacAcceptExit ==
    /\ fac.listener.accept_thread = "running"
    /\ ~fac.listener.running_
    /\ fac.close_outcome = "accept_fails"
    /\ fac' = [fac EXCEPT !.listener.accept_thread = "exited"]
    /\ UNCHANGED notG

\* stop(): if (!running_.compare_exchange_strong(expected, false)) return.
FacStopCall ==
    /\ fac.stop = "idle"
    /\ fac.start \in {"idle", "returned"}
    /\ fac' = [fac EXCEPT !.running_ = FALSE,
                          !.stop = IF fac.running_ THEN "join_dist" ELSE "done"]
    /\ UNCHANGED notG

\* stop(): distribution_thread_.join().
FacJoinDist ==
    /\ fac.stop = "join_dist"
    /\ fac.dist \in {"none", "exited"}
    /\ fac' = [fac EXCEPT !.dist = "none", !.stop = "join_stats"]
    /\ UNCHANGED notG

\* stop(): stats_update_thread_.join().
FacJoinStats ==
    /\ fac.stop = "join_stats"
    /\ fac.stats \in {"none", "exited"}
    /\ fac' = [fac EXCEPT !.stats = "none",
                          !.stopped = Append(@, "stats"),
                          !.stop = "component",
                          !.stop_at = 1]
    /\ UNCHANGED notG

\* stop(): streaming_service_, media_processor_, compression_engine_ and
\* capture_manager_, each stopped and reset if it exists; their loops test
\* their flag after a bounded sleep, so each stop() returns.
FacStopComponent ==
    /\ fac.stop = "component"
    /\ LET name == StopSequence[fac.stop_at]
       IN fac' = [fac EXCEPT
              !.up = @ \ {name},
              !.stopped = IF name \in fac.up THEN Append(@, name) ELSE @,
              !.stop_at = IF fac.stop_at < Len(StopSequence) THEN @ + 1 ELSE @,
              !.stop = IF fac.stop_at < Len(StopSequence)
                       THEN "component" ELSE "listener"]
    /\ UNCHANGED notG

\* stop(): tcp_server_.stop() clears the listener's running_ and closes the
\* listening socket.
FacStopListener ==
    /\ fac.stop = "listener"
    /\ fac' = [fac EXCEPT !.listener.running_ = FALSE,
                          !.listener.listen_open = FALSE,
                          !.stop = "join_accept"]
    /\ UNCHANGED notG

\* TcpServer::stop(): accept_thread_.join(), then the connections and the
\* thread pool; stop() prints the statistics and returns.
FacJoinAccept ==
    /\ fac.stop = "join_accept"
    /\ fac.listener.accept_thread \in {"none", "exited"}
    /\ fac' = [fac EXCEPT !.listener.accept_thread = "none",
                          !.stopped = Append(@, "listener"),
                          !.stop = "done"]
    /\ UNCHANGED notG

\* AVServer(config): nothing runs.  The platform decides whether closing the
\* listening socket wakes ::accept, the peer whether its socket takes bytes.
FacInit ==
    \E close_outcome \in CloseOutcomes, writable \in BOOLEAN :
        fac = [running_ |-> FALSE,
               up |-> {},
               listener |-> [running_ |-> FALSE, listen_open |-> FALSE,
                             accept_thread |-> "none"],
               dist |-> "none", stats |-> "none",
               start |-> "idle", start_ret |-> "none",
               stop |-> "idle", stop_at |-> 1,
               started |-> <<>>, stopped |-> <<>>,
               listen_outcome |-> "none",
               close_outcome |-> close_outcome, writable |-> writable]

FacThreads ==
    \/ DistTest
    \/ \E sends \in BOOLEAN : DistBody(sends)
    \/ DistSend
    \/ StatsTest
    \/ StatsSleep
    \/ FacAcceptExit

FacStopSteps ==
    \/ FacStopCall
    \/ FacJoinDist
    \/ FacJoinStats
    \/ FacStopComponent
    \/ FacStopListener
    \/ FacJoinAccept

FacNext ==
    \/ FacStartCall
    \/ \E ok \in BOOLEAN : FacStartCapture(ok)
    \/ FacStartEncoder
    \/ FacStartPipeline
    \/ FacStartService
    \/ \E outcome \in ListenOutcomes : FacStartListener(outcome)
    \/ FacSpawnDist
    \/ FacSpawnStats
    \/ FacSetRunning
    \/ FacThreads
    \/ FacStopSteps

----------------------------------------------------------------------------
(* Subscriber sessions and the two distribution loops *)

SubIds == 1..NumSubs

\* Message::total_size of a message with the given payload size.
total_size(payload_size) == HEADER_SIZE + payload_size

\* ClientSession's constructor.
ClientSession == [is_active |-> TRUE, bytes_sent |-> 0, messages_sent |-> 0]

\* StreamingService::distribute_message: every active session's counters
\* grow by one message of the given size; nothing is sent.
distribute_message(clients, payload_size) ==
    [c \in DOMAIN clients |->
        IF clients[c].is_active
        THEN [clients[c] EXCEPT !.bytes_sent = @ + total_size(payload_size),
                                !.messages_sent = @ + 1]
        ELSE clients[c]]

\* A function without the entry of c.
Without(f, c) == [d \in DOMAIN f \ {c} |-> f[d]]

\* A function with the entry of c set to v.
With(f, c, v) == [d \in DOMAIN f \cup {c} |-> IF d = c THEN v ELSE f[d]]

\* A client is accepted: its Connection is inserted in connections_ and
\* on_client_connected registers its session.
SubConnect(c) ==
    /\ c \notin sub.seen
    /\ sub' = [sub EXCEPT !.seen = @ \cup {c},
                          !.connections_ = With(@, c, "up"),
                          !.clients_ = With(@, c, ClientSession)]
    /\ UNCHANGED notU

\* The peer of c goes away: the next ::send on its socket fails.
SubPeerGone(c) ==
    /\ c \in DOMAIN sub.connections_
    /\ sub.connections_[c] = "up"
    /\ sub' = [sub EXCEPT !.connections_[c] = "peer_gone"]
    /\ UNCHANGED notU

\* handle_client's receive loop of c has ended: on_client_disconnected
\* unregisters the session.
SubUnregister(c) ==
    /\ c \in DOMAIN sub.clients_
    /\ c \in DOMAIN sub.connections_
    /\ sub.connections_[c] # "up"
    /\ sub' = [sub EXCEPT !.clients_ = Without(@, c)]
    /\ UNCHANGED notU

\* handle_client then erases the connection.
SubErase(c) ==
    /\ c \in DOMAIN sub.connections_
    /\ c \notin DOMAIN sub.clients_
    /\ sub' = [sub EXCEPT !.connections_ = Without(@, c)]
    /\ UNCHANGED notU

\* The pipeline pushes one more message; the k-th message carries k payload
\* bytes, so messages differ in size.
SubProduce ==
    /\ sub.produced < MaxSubMsgs
    /\ sub' = [sub EXCEPT !.produced = @ + 1,
                          !.queue = Append(@, sub.produced)]
    /\ UNCHANGED notU

\* StreamingService::distribution_loop takes a message and accounts it.
SubServiceLoop ==
    /\ sub.queue # <<>>
    /\ sub' = [sub EXCEPT !.queue = Tail(@),
                          !.clients_ = distribute_message(@, Head(sub.queue))]
    /\ UNCHANGED notU

\* AVServer::distribution_loop takes a message and copies the sessions.
SubFacadeGet ==
    /\ sub.loop.pc = "idle"
    /\ sub.queue # <<>>
    /\ sub' = [sub EXCEPT !.queue = Tail(@),
                          !.loop = [pc |-> IF DOMAIN sub.clients_ = {}
                                           THEN "idle" ELSE "each",
                                    msg |-> Head(sub.queue),
                                    snapshot |-> sub.clients_,
                                    todo |-> DOMAIN sub.clients_]]
    /\ UNCHANGED notU

\* Connection::send on a connection in the given state: whether it returns
\* true, and the state it leaves.
SendResult(state) ==
    IF state = "up" THEN [ok |-> TRUE, state |-> "up"]
    ELSE [ok |-> FALSE, state |-> "down"]

\* One iteration of AVServer::distribution_loop's for loop, in the order of
\* the copied map.
SubFacadeSend ==
    /\ sub.loop.pc = "each"
    /\ LET c == CHOOSE x \in sub.loop.todo : \A y \in sub.loop.todo : x <= y
           rest == sub.loop.todo \ {c}
           loop == [sub.loop EXCEPT !.todo = rest,
                                    !.pc = IF rest = {} THEN "idle" ELSE "each"]
           resolved == c \in DOMAIN sub.connections_
           r == SendResult(sub.connections_[c])
           again == IF c \in sub.failed /\ c \in DOMAIN sub.clients_
                    THEN {c} ELSE {}
       IN  IF ~sub.loop.snapshot[c].is_active
           THEN sub' = [sub EXCEPT !.loop = loop]
           ELSE IF ~resolved
           THEN sub' = [sub EXCEPT !.loop = loop,
                                   !.failed = @ \cup {c},
                                   !.retried = @ \cup again]
           ELSE sub' = [sub EXCEPT
                    !.loop = loop,
                    !.connections_[c] = r.state,
                    !.sent[c] = IF r.ok
                                THEN [count |-> @.count + 1,
                                      bytes |-> @.bytes + total_size(sub.loop.msg)]
                                ELSE @,
                    !.failed = IF r.ok THEN @ ELSE @ \cup {c},
                    !.retried = @ \cup again]
    /\ UNCHANGED notU

\* The services are started and no client has connected.
SubInit ==
    sub = [clients_ |-> <<>>,
           connections_ |-> <<>>,
           seen |-> {},
           queue |-> <<>>,
           produced |-> 0,
           loop |-> [pc |-> "idle", msg |-> 0, snapshot |-> <<>>, todo |-> {}],
           sent |-> [c \in SubIds |-> [count |-> 0, bytes |-> 0]],
           failed |-> {},
           retried |-> {}]

SubNext ==
    \/ \E c \in SubIds : SubConnect(c)
    \/ \E c \in SubIds : SubPeerGone(c)
    \/ \E c \in SubIds : SubUnregister(c)
    \/ \E c \in SubIds : SubErase(c)
    \/ SubProduce
    \/ SubServiceLoop
    \/ SubFacadeGet
    \/ SubFacadeSend

----------------------------------------------------------------------------
(* Connection::close against concurrent send and receive_message *)

\* The callers of send() and of receive_message() on one Connection.
IoThreads == {"sender", "receiver"}

\* The values socket_ takes: the accepted descriptor and INVALID_SOCKET.
SocketValues == {"fd", "INVALID_SOCKET"}

\* close(), lines 203-207: the first caller flips connected_ and goes on.
CloseCas ==
    /\ link.close = "idle"
    /\ link' = [link EXCEPT !.close = IF link.connected_ THEN "flagged" ELSE "done",
                            !.connected_ = FALSE]
    /\ UNCHANGED notK

\* close(), line 211: ::closesocket(socket_) releases the descriptor.
CloseSocket ==
    /\ link.close = "flagged"
    /\ link' = [link EXCEPT !.close = "released", !.fd_open = FALSE]
    /\ UNCHANGED notK

\* close(), lines 212-216: socket_ = INVALID_SOCKET, the ring is cleared.
CloseInvalidate ==
    /\ link.close = "released"
    /\ link' = [link EXCEPT !.close = "done", !.socket_ = "INVALID_SOCKET"]
    /\ UNCHANGED notK

\* send() / receive_message() entry (lines 317-319, 241-243): return false
\* when connected_ is false, go on to the system call otherwise.
IoCheck(t) ==
    /\ link.io[t].pc = "idle"
    /\ link.io[t].calls < MaxIoCalls
    /\ link' = [link EXCEPT !.io[t] =
                    [pc |-> IF link.connected_ THEN "checked" ELSE "idle",
                     calls |-> @.calls + 1]]
    /\ UNCHANGED notK

\* The values a read of socket_ can yield: socket_ is a plain member that
\* close() writes without synchronisation, so a caller that saw connected_
\* true may still read the descriptor after close() has overwritten it.
SocketRead == {link.socket_, "fd"}

\* ::send(socket_, ...) / ::recv(socket_, ...) (lines 330, 247) with the
\* value read from socket_; a non-positive result clears connected_
\* (lines 333-337, 250-254).
IoSyscall(t, sock, ok) ==
    /\ link.io[t].pc = "checked"
    /\ sock \in SocketRead
    /\ (sock = "INVALID_SOCKET") => ~ok
    /\ link' = [link EXCEPT
            !.io[t].pc = "idle",
            !.connected_ = IF ok THEN @ ELSE FALSE,
            !.after_close = @ \cup (IF link.close \in {"released", "done"}
                                    THEN {t} ELSE {}),
            !.stale = @ \cup (IF sock = "fd" /\ ~link.fd_open
                              THEN {t} ELSE {})]
    /\ UNCHANGED notK

\* A connected Connection right after accept.
LinkInit ==
    link = [connected_ |-> TRUE,
            socket_ |-> "fd",
            fd_open |-> TRUE,
            close |-> "idle",
            io |-> [t \in IoThreads |-> [pc |-> "idle", calls |-> 0]],
            after_close |-> {},
            stale |-> {}]

LinkNext ==
    \/ CloseCas
    \/ CloseSocket
    \/ CloseInvalidate
    \/ \E t \in IoThreads : IoCheck(t)
    \/ \E t \in IoThreads, sock \in SocketValues, ok \in BOOLEAN :
         IoSyscall(t, sock, ok)

----------------------------------------------------------------------------
(* Specifications *)

\* A specification constructs the component it drives; the variables of the
\* components that do not exist in it hold Absent.
Absent == <<>>

\* No SafeQueue exists.
QAbsent ==
    /\ queue_ = Absent
    /\ shutdown_ = Absent
    /\ cvWaiting = Absent
    /\ cpc = Absent
    /\ lastRet = Absent
    /\ ppc = Absent
    /\ spc = Absent
    /\ nextItem = Absent
    /\ pushed = Absent
    /\ delivered = Absent
    /\ clearedItems = Absent
    /\ shutdownDone = Absent

\* No CircularBuffer exists.
RingAbsent ==
    /\ capacity_ = Absent
    /\ buffer_ = Absent
    /\ write_pos_ = Absent
    /\ read_pos_ = Absent
    /\ relock = Absent
    /\ ringHung = Absent
    /\ ringFifo = Absent
    /\ ringOut = Absent
    /\ nextByte = Absent

\* No Connection exists.
ConnAbsent ==
    /\ connected_ = Absent
    /\ stream = Absent
    /\ streamMsgs = Absent
    /\ recvPos = Absent
    /\ message = Absent
    /\ yielded = Absent
    /\ ringClears = Absent
    /\ firstClearAt = Absent
    /\ bytesDropped = Absent
    /\ bytesTaken = Absent

\* No server exists.
FanAbsent ==
    /\ next_connection_id_ = Absent
    /\ connections_ = Absent
    /\ clients_ = Absent
    /\ statsOwner = Absent
    /\ connOwner = Absent
    /\ apc = Absent
    /\ dpc = Absent
    /\ bpc = Absent
    /\ tasks = Absent
    /\ message_queue_ = Absent
    /\ nextMsg = Absent
    /\ sentTo = Absent
    /\ accounted = Absent
    /\ stuckConn = Absent
    /\ sndbuf = Absent
    /\ broadcasts = Absent

\* No Message under test exists.
MsgAbsent ==
    /\ src_msg = Absent
    /\ wire = Absent
    /\ dst_msg = Absent
    /\ rtrip = Absent
    /\ probe = Absent

\* No frame pool exists.
PoolAbsent ==
    /\ video_pool = Absent
    /\ encode_pool = Absent
    /\ frame_queue_ = Absent
    /\ pool_pc = Absent

\* The queue under test.
TPAbsent ==
    /\ thread_pool = Absent
    /\ workers = Absent
    /\ callers = Absent
    /\ tp_log = Absent

IdsAbsent == lifetime = Absent

\* The components that are one variable each: all but `keep` are absent.
RestAbsent(keep) ==
    /\ TRUE
    /\ keep = "srv" \/ srv = Absent
    /\ keep = "snd" \/ snd = Absent
    /\ keep = "capture" \/ capture = Absent
    /\ keep = "pipe" \/ pipe = Absent
    /\ keep = "disp" \/ disp = Absent
    /\ keep = "fac" \/ fac = Absent
    /\ keep = "sub" \/ sub = Absent
    /\ keep = "link" \/ link = Absent

InitQ ==
    /\ QInit
    /\ RingAbsent
    /\ ConnAbsent
    /\ FanAbsent
    /\ MsgAbsent
    /\ PoolAbsent
    /\ TPAbsent
    /\ IdsAbsent
    /\ RestAbsent("")

SpecQ == InitQ /\ [][QNext]_vars

\* A runnable thread is eventually scheduled: a woken consumer re-acquires the
\* mutex, and the caller of shutdown() goes from its lock_guard block on to
\* notify_all.  Nothing forces new calls, timeouts or spurious wakes.
FairSpecQ ==
    /\ SpecQ
    /\ \A t \in Consumers : WF_qvars(PopWake(t) \/ PopForWake(t))
    /\ WF_qvars(ShutdownNotify)

RingInit ==
    /\ RingConstructed(RingCapacity)
    /\ relock \in RelockOutcomes
    /\ QAbsent
    /\ ConnAbsent
    /\ FanAbsent
    /\ MsgAbsent
    /\ PoolAbsent
    /\ TPAbsent
    /\ IdsAbsent
    /\ RestAbsent("")

RingNext ==
    \/ RingRelockHang
    \/ \E size \in 1..(RingCapacity + 1) : RingWriteOp(size)
    \/ \E size \in 1..(RingCapacity + 1) : RingReadOp(size)
    \/ \E size \in 1..(RingCapacity + 1) : RingPeekOp(size)
    \/ RingClearOp

SpecRing == RingInit /\ [][RingNext]_vars

\* A connected Connection, its peer's stream and the caller's Message.
RecvInit ==
    /\ RingConstructed(RecvBufferSize)
    /\ relock \in RelockOutcomes
    /\ connected_ = TRUE
    /\ \E k \in 1..MaxMsgs, j \in GarbageLens, fill \in PaddingFill :
         \E kinds \in [1..k -> MsgKinds] :
            /\ stream = Garbage(j) \o Concat(Encoded(kinds, fill))
            /\ streamMsgs = Framed(kinds, fill, j)
    /\ recvPos = 0
    /\ message \in {DefaultMessage(fill) : fill \in PaddingFill}
    /\ yielded = <<>>
    /\ ringClears = 0
    /\ firstClearAt = -1
    /\ bytesDropped = 0
    /\ bytesTaken = 0
    /\ QAbsent
    /\ FanAbsent
    /\ MsgAbsent
    /\ PoolAbsent
    /\ TPAbsent
    /\ IdsAbsent
    /\ RestAbsent("")

\* The sizes ::recv returns: a single byte, and up to MaxMsgs headers give or
\* take a byte.
ChunkSizes ==
    {1} \cup {k * HEADER_SIZE + d : k \in 1..MaxMsgs, d \in {-1, 0, 1}}

RecvNext ==
    \/ \E n \in ChunkSizes, local \in LocalHeaders : ReceiveMessage(n, local)
    \/ ReceiveEof

SpecRecv == RecvInit /\ [][RecvNext]_vars

\* The servers as started; which client is the stuck one is open.
FanInit ==
    /\ FanConstructed
    /\ stuckConn \in Clients
    /\ QAbsent
    /\ RingAbsent
    /\ ConnAbsent
    /\ MsgAbsent
    /\ PoolAbsent
    /\ TPAbsent
    /\ IdsAbsent
    /\ RestAbsent("")

SpecFan == FanInit /\ [][FanNext]_vars

\* Every thread that can take a step eventually takes it: the accept thread,
\* the two distribution threads and a thread inside broadcast.  Nothing forces
\* a client to connect, the pipeline to produce, the application to
\* broadcast, or handle_client, which stands for the handler of a connected
\* client, to end.
FairSpecFan ==
    /\ SpecFan
    /\ WF_fvars(AcceptInsert \/ OnClientConnected \/ WelcomeSent)
    /\ WF_fvars(DistributeGet \/ DistributeNext \/ DistributeSent
                  \/ DistributeStats)
    /\ WF_fvars(ServiceDistribute)
    /\ WF_fvars(BroadcastNext \/ BroadcastSent)

\* A message from either constructor, on storage with either padding, and a
\* default-constructed message to parse into.
MsgInit ==
    /\ \E fill \in PaddingFill :
         \/ src_msg = DefaultMessage(fill)
         \/ \E type \in MsgTypes, n \in 0..MaxMsgPayload :
              src_msg = MessageCtor(type, n, 0, fill)
    /\ wire = <<>>
    /\ dst_msg \in {DefaultMessage(fill) : fill \in PaddingFill}
    /\ rtrip = NoTrip
    /\ probe = NoProbe
    /\ QAbsent
    /\ RingAbsent
    /\ ConnAbsent
    /\ FanAbsent
    /\ PoolAbsent
    /\ TPAbsent
    /\ IdsAbsent
    /\ RestAbsent("")

SpecMsg == MsgInit /\ [][MsgNext]_vars

\* A capture thread and a pipeline thread with their pools.
InitPool ==
    /\ PoolInit
    /\ QAbsent
    /\ RingAbsent
    /\ ConnAbsent
    /\ FanAbsent
    /\ MsgAbsent
    /\ TPAbsent
    /\ IdsAbsent
    /\ RestAbsent("")

SpecPool == InitPool /\ [][PoolNext]_vars

\* A ThreadPool, threads that add work and threads that call shutdown().
InitTP ==
    /\ TPInit
    /\ QAbsent
    /\ RingAbsent
    /\ ConnAbsent
    /\ FanAbsent
    /\ MsgAbsent
    /\ PoolAbsent
    /\ IdsAbsent
    /\ RestAbsent("")

SpecTP == InitTP /\ [][TPNext]_vars

\* Every worker thread keeps being scheduled and every task comes to an end;
\* a thread inside shutdown() goes on to close the queue and to join. Nothing
\* obliges anyone to add work or to call shutdown().
FairSpecTP ==
    /\ SpecTP
    /\ \A w \in Workers :
         WF_tvars(WorkerCheck(w) \/ WorkerPop(w) \/ WorkerBegin(w) \/ WorkerEnd(w))
    /\ \A c \in Callers : WF_tvars(ShutdownQueue(c) \/ ShutdownJoin(c))

----------------------------------------------------------------------------
(* Claims about SafeQueue<T> *)

\* C8: after shutdown(), pop and pop_for hand out every item still queued, in
\* queue order and each with result true, and return false only on an empty
\* queue: a call that ran on a shut-down queue holding an item returned true
\* with the item then at the front, and one that ran on an empty shut-down
\* queue returned false.
C8_DrainThenFail ==
    (lastRet.op \in {"pop", "pop_for"}) =>
        IF lastRet.nonempty
        THEN lastRet.ok /\ lastRet.front
        ELSE ~lastRet.ok

\* A pop on a shut-down queue that still held two items returned the first.
C8_Witness ==
    /\ lastRet.op = "pop" /\ lastRet.ok
    /\ lastRet.nonempty /\ lastRet.front
    /\ Len(queue_) = 1

\* C9: shutdown() wakes every waiter: a consumer that is inside pop or pop_for
\* once the queue is shut down eventually returns, and a repeated shutdown()
\* changes neither the queue, the flag nor any consumer.
C9_ShutdownWakesAll ==
    /\ \A t \in Consumers : (shutdown_ /\ cpc[t] # "idle") ~> (cpc[t] = "idle")
    /\ [][(shutdownDone /\ (ShutdownStore \/ ShutdownNotify)) =>
            UNCHANGED <<queue_, shutdown_, cvWaiting, cpc, delivered, lastRet>>]_vars

\* Every consumer was blocked in pop when shutdown() stored the flag, and the
\* notify_all has not run yet.
C9_Witness ==
    /\ shutdown_ /\ spc = "notify" /\ ~shutdownDone
    /\ \A t \in Consumers : cpc[t] = "pop_wait"
    /\ cvWaiting = Consumers

\* C10: every pushed item is handed to exactly one successful pop variant: no
\* item is delivered twice, and an item that was pushed is either delivered,
\* still queued, or was removed by clear().
C10_ExactlyOnce ==
    LET d  == {delivered[i] : i \in 1..Len(delivered)}
        qs == {queue_[i] : i \in 1..Len(queue_)}
    IN  /\ Cardinality(d) = Len(delivered)
        /\ Cardinality(qs) = Len(queue_)
        /\ d \cap qs = {}
        /\ d \cap clearedItems = {}
        /\ d \cup qs \cup clearedItems = pushed

\* Two producers are both between their push and their notify while items
\* have already been delivered and nothing was cleared.
C10_Witness ==
    /\ \A p \in {1, 2} : ppc[p] = "notify"
    /\ Len(delivered) >= 1
    /\ clearedItems = {}

\* C11: items leave the queue in the order in which push stored them,
\* whichever consumers and pop variants take them.  Values are numbered in the
\* order queue_.push ran under the mutex, which for the pushes of one producer
\* is the order of its calls, so the items of a single producer are popped in
\* the order it pushed them.
C11_Fifo ==
    \A i, j \in 1..Len(delivered) : i < j => delivered[i] < delivered[j]

\* Two items were taken, nothing was cleared, and the consumers are again
\* idle.
C11_Witness ==
    /\ Len(delivered) >= 2
    /\ clearedItems = {}
    /\ \A t \in Consumers : cpc[t] = "idle"

----------------------------------------------------------------------------
(* Claims about CircularBuffer *)

\* C6: the ring buffer is a bounded FIFO byte queue: the bytes a read or peek
\* returns are exactly the oldest bytes that writes reported as written since
\* the last clear and that no read has returned yet, in order.
C6_RingIsByteQueue ==
    ringOut.op \in {"read", "peek"} => ringOut.data = ringOut.expect

\* C7: available_data() + available_space() = capacity and
\* 0 <= available_data() <= capacity, in every state.
C7_FillPlusFree ==
    /\ available_data(write_pos_, read_pos_, capacity_)
         + available_space(write_pos_, read_pos_, capacity_) = capacity_
    /\ available_data(write_pos_, read_pos_, capacity_) >= 0
    /\ available_data(write_pos_, read_pos_, capacity_) <= capacity_

\* The buffer holds data across the wrap: the write index is behind the read
\* index after a write.
C7_Witness ==
    /\ ringOut.op = "write"
    /\ write_pos_ < read_pos_
    /\ available_data(write_pos_, read_pos_, capacity_) = capacity_ - 1

----------------------------------------------------------------------------
(* Claims about the Connection receive path *)

\* The peer's stream starts with a message: no garbage precedes it.
NoGarbage == streamMsgs # <<>> /\ streamMsgs[1].at = 0

\* The contents of the messages of the stream, in order.
Sent == [i \in 1..Len(streamMsgs) |-> streamMsgs[i].content]

\* C3: framed extraction: once every byte of a stream of k valid messages has
\* been delivered, in whatever chunks, the receive path has yielded exactly
\* those k messages, each once and in the original order (stated for the
\* builds on which the nested lock of the ring buffer is let through).
C3_FramedExtraction ==
    (relock = "proceeds" /\ NoGarbage /\ recvPos = Len(stream)) =>
        yielded = Sent

\* C4: on a stream of valid messages no received byte is discarded: the ring
\* is never cleared, write() accepts every received byte, and the ring holds
\* exactly the received bytes that no extracted message has consumed (stated
\* for the builds on which the nested lock is let through).
C4_NoByteDiscarded ==
    (relock = "proceeds" /\ NoGarbage) =>
        /\ ringClears = 0
        /\ bytesDropped = 0
        /\ RingPeek(buffer_, write_pos_, read_pos_, capacity_, capacity_)
              = SubSeq(stream, bytesTaken + 1, recvPos)

\* C5: resync: when garbage precedes the messages, the extractor clears the
\* ring on the invalid header, and every message whose first byte arrives
\* after that clear has been yielded, in order, once the stream is delivered
\* (stated for the builds on which the nested lock is let through).
C5_Resync ==
    (relock = "proceeds" /\ streamMsgs # <<>> /\ ~NoGarbage
        /\ recvPos = Len(stream)) =>
        /\ firstClearAt # -1
        /\ yielded = LET after == SelectSeq(streamMsgs,
                                            LAMBDA m : m.at >= firstClearAt)
                      IN  [i \in 1..Len(after) |-> after[i].content]

----------------------------------------------------------------------------
(* Claims about the fan-out and the accept loop *)

\* The threads that call Connection::send, and whether each is inside it.
Senders == {"accept", "dist", "broadcast"}

InSend(t) ==
    \/ t = "accept" /\ apc.pc = "welcome_send"
    \/ t = "dist" /\ dpc.pc = "send"
    \/ t = "broadcast" /\ bpc.pc = "send"

WasSentTo(c, m) == \E i \in 1..Len(sentTo[c]) : sentTo[c][i] = m

Queued(m) == \E i \in 1..Len(message_queue_) : message_queue_[i] = m

C2_NoMutexAcrossSend ==
    \A t \in Senders : InSend(t) => (statsOwner # t /\ connOwner # t)

----------------------------------------------------------------------------
(* Claims about the pipeline output queue *)

\* C12: the pipeline output queue is bounded: some bound below the number of
\* messages the pipeline produces is never exceeded, because a full queue
\* makes the pipeline pause until a distributor removes a message.
C12_OutputQueueBounded ==
    Len(message_queue_) <= MaxFanMsgs - 1

\* C13: the output queue has a single consumer: no message is removed from it
\* by a task other than the distributor that sends to the subscriber
\* connections.
C13_SoleConsumer ==
    accounted = {}

----------------------------------------------------------------------------
(* Claims about Message and MessageHeader *)

\* The header's payload_size equals the number of payload bytes held.
SizeConsistent(m) == FromBytes(m.header_.payload_size) = Len(m.payload_)

\* C14: round trip: parsing the bytes that to_bytes() produced from a valid
\* message whose header size matches its payload succeeds, yields the same
\* type, timestamp, payload size and payload bytes, and the parsed message is
\* valid.
C14_RoundTrip ==
    (rtrip.done /\ message_is_valid(src_msg) /\ SizeConsistent(src_msg)) =>
        /\ rtrip.ok
        /\ Content(dst_msg) = Content(src_msg)
        /\ dst_msg.header_.payload_size = src_msg.header_.payload_size
        /\ message_is_valid(dst_msg)

\* C15: for every message reachable through the constructors and mutators,
\* the serialized length is 20 + the payload_size stored in the header.
C15_TotalSize ==
    Len(to_bytes(src_msg)) = HEADER_SIZE + FromBytes(src_msg.header_.payload_size)

\* C16: inverting one bit of the magic field or of the payload-size field of
\* a valid header (or of bytes 6-7, which the documented layout counts as
\* payload size) yields a header for which is_valid() is false.
C16_BitFlipDetected ==
    probe.field # "none" => ~probe.valid

\* A bit of payload_size was inverted in the valid header of a message that
\* holds payload bytes and whose type and timestamp were set.
C16_Witness ==
    /\ probe.field = "payload_size" /\ ~probe.valid
    /\ src_msg.payload_ # <<>>
    /\ src_msg.header_.type = HEARTBEAT
    /\ src_msg.header_.timestamp # ToBytes(0, 8)

----------------------------------------------------------------------------
(* Claims about FrameBufferPool *)

\* C17: for each pool, the get() calls minus the return_frame() calls it has
\* recorded equal the number of its frames currently checked out.
C17_PoolAccounting ==
    /\ video_pool.stats_total_get_ - video_pool.stats_total_return_
            = VideoFramesOut
    /\ encode_pool.stats_total_get_ - encode_pool.stats_total_return_
            = EncodedFramesOut

\* One TcpServer accepting sockets and dropping connections.
InitIds ==
    /\ IdInit
    /\ QAbsent
    /\ RingAbsent
    /\ ConnAbsent
    /\ FanAbsent
    /\ MsgAbsent
    /\ PoolAbsent
    /\ TPAbsent
    /\ RestAbsent("")

SpecIds == InitIds /\ [][IdNext]_vars

\* One capture thread and one consumer of its queue.
InitCap ==
    /\ CapInit
    /\ QAbsent
    /\ RingAbsent
    /\ ConnAbsent
    /\ FanAbsent
    /\ MsgAbsent
    /\ PoolAbsent
    /\ TPAbsent
    /\ IdsAbsent
    /\ RestAbsent("capture")

SpecCap == InitCap /\ [][CapNext]_vars

\* Two captures feeding process_loop.
InitPipe ==
    /\ PipeInit
    /\ QAbsent
    /\ RingAbsent
    /\ ConnAbsent
    /\ FanAbsent
    /\ MsgAbsent
    /\ PoolAbsent
    /\ TPAbsent
    /\ IdsAbsent
    /\ RestAbsent("pipe")

SpecPipe == InitPipe /\ [][PipeNext]_vars

\* Two connections whose messages are dispatched.
InitDisp ==
    /\ DispInit
    /\ QAbsent
    /\ RingAbsent
    /\ ConnAbsent
    /\ FanAbsent
    /\ MsgAbsent
    /\ PoolAbsent
    /\ TPAbsent
    /\ IdsAbsent
    /\ RestAbsent("disp")

SpecDisp == InitDisp /\ [][DispNext]_vars

\* One caller that starts the facade and stops it.
InitFac ==
    /\ FacInit
    /\ QAbsent
    /\ RingAbsent
    /\ ConnAbsent
    /\ FanAbsent
    /\ MsgAbsent
    /\ PoolAbsent
    /\ TPAbsent
    /\ IdsAbsent
    /\ RestAbsent("fac")

SpecFac == InitFac /\ [][FacNext]_vars

\* Threads that can take a step take it, and a caller inside stop() goes on.
FairSpecFac ==
    /\ SpecFac
    /\ WF_gvars(FacThreads)
    /\ WF_gvars(FacStopSteps)

\* Subscribers come and go while both distribution loops run.
InitSub ==
    /\ SubInit
    /\ QAbsent
    /\ RingAbsent
    /\ ConnAbsent
    /\ FanAbsent
    /\ MsgAbsent
    /\ PoolAbsent
    /\ TPAbsent
    /\ IdsAbsent
    /\ RestAbsent("sub")

SpecSub == InitSub /\ [][SubNext]_vars

\* One Connection, a thread that closes it and the threads that use it.
InitLink ==
    /\ LinkInit
    /\ QAbsent
    /\ RingAbsent
    /\ ConnAbsent
    /\ FanAbsent
    /\ MsgAbsent
    /\ PoolAbsent
    /\ TPAbsent
    /\ IdsAbsent
    /\ RestAbsent("link")

SpecLink == InitLink /\ [][LinkNext]_vars

\* One call of Connection::send.
InitSend ==
    /\ SendInit
    /\ QAbsent
    /\ RingAbsent
    /\ ConnAbsent
    /\ FanAbsent
    /\ MsgAbsent
    /\ PoolAbsent
    /\ TPAbsent
    /\ IdsAbsent
    /\ RestAbsent("snd")

SpecSend == InitSend /\ [][SendNext]_vars

\* One TcpServer: clients connect, tasks run, threads call stop().
InitSrv ==
    /\ SrvInit
    /\ QAbsent
    /\ RingAbsent
    /\ ConnAbsent
    /\ FanAbsent
    /\ MsgAbsent
    /\ PoolAbsent
    /\ TPAbsent
    /\ IdsAbsent
    /\ RestAbsent("srv")

SpecSrv == InitSrv /\ [][SrvNext]_vars

\* The accept thread and the workers keep being scheduled, and a thread inside
\* stop() goes on; nobody is obliged to connect, to start or to call stop().
FairSpecSrv ==
    /\ SpecSrv
    /\ WF_svars(AcceptSteps)
    /\ \A w \in SrvWorkers : WF_svars(SrvWorkerSteps(w))
    /\ WF_svars(StopSteps)

----------------------------------------------------------------------------
(* Claims about ThreadPool *)

\* C18: a task that throws never ends the worker that ran it: no worker is
\* terminated by a task, a worker whose last task threw is back in its loop
\* (or has left it because stop_ is set), and active_tasks_ counts exactly the
\* tasks that are running.
C18_FailureContained ==
    /\ \A w \in Workers :
         /\ workers[w].pc # "terminated"
         /\ workers[w].failed =>
                \/ workers[w].pc \in {"check", "pop", "got", "run"}
                \/ workers[w].pc = "exited" /\ thread_pool.stop_
    /\ thread_pool.active_tasks_ =
           Cardinality({w \in Workers : workers[w].pc = "run"})

\* C19: after shutdown() is called every task that was running completes, no
\* task is taken from the queue once stop_ is set, all workers leave worker(),
\* and a further call of shutdown() changes nothing in the pool. (A process
\* ended by std::terminate is excused from the progress parts.)
C19_Shutdown ==
    /\ [](tp_log.takenAfterStop = {})
    /\ \A t \in TaskIds :
         (t \in tp_log.runningAtStop) ~> (t \in tp_log.completed \/ Aborted)
    /\ thread_pool.stop_ ~>
           ((\A w \in Workers : workers[w].pc = "exited") \/ Aborted)
    /\ [][\A c \in Callers :
             (thread_pool.stop_ /\ callers[c] = "idle" /\ callers'[c] # "idle")
                 => UNCHANGED <<thread_pool, workers, tp_log>>]_tvars

----------------------------------------------------------------------------
(* Claims about connection ids *)

\* The ids at positions 1..n of the accept order are strictly increasing.
Increasing(n) ==
    \A i, j \in 1..n :
        i < j => Less32(lifetime.assigned[i], lifetime.assigned[j])

----------------------------------------------------------------------------
(* Claims about the TcpServer lifecycle *)

\* C21: the registry never holds more than max_connections connections, and a
\* socket accepted while the registry is full is closed, is not in the
\* registry, gets no on-connect hook and no task in the pool.
C21_RegistryBounded ==
    /\ Cardinality(srv.connections_) <= srv.max_connections
    /\ \A id \in srv.rejected :
         /\ ~srv.conns[id].socket_open
         /\ id \notin srv.connections_
         /\ id \notin srv.connect_hooks
         /\ id \notin srv.submitted

\* The registry is full, and a socket has been rejected.
C21_Witness ==
    /\ Cardinality(srv.connections_) = srv.max_connections
    /\ srv.rejected # {}

\* C22: the on-disconnect hook of a connection runs, and handle_client removes
\* it from the registry, only after its connected_ flag has become false.
C22_DisconnectAfterFlag == srv.gone_while_connected = {}

\* C23: every connection whose on-connect hook ran eventually gets the
\* on-disconnect hook, exactly once and never before the on-connect hook,
\* also when stop() is called while its task is still queued.
C23_SubscriberLifecycle ==
    /\ [](\A id \in SrvIds :
            /\ srv.disconnect_hooks[id] <= 1
            /\ srv.disconnect_hooks[id] > 0 => id \in srv.connect_hooks)
    /\ \A id \in SrvIds :
         (id \in srv.connect_hooks) ~> (srv.disconnect_hooks[id] = 1)

\* C25: however often and from however many threads stop() and close() are
\* called, each teardown runs exactly once (the listener's, the facade's, and
\* for every connection that close() was called on, the closing of its
\* socket), and every call of stop() returns.
C25_StopIdempotent ==
    /\ [](srv.teardowns <= 1 /\ srv.facade_teardowns <= 1)
    /\ [](\A id \in SrvIds :
            srv.conns[id].close_called =>
                srv.conns[id].closes = 1 /\ ~srv.conns[id].socket_open)
    /\ \A n \in 1..MaxStopCalls :
         (srv.stop_calls = n) ~> (srv.stop_returned >= n)

----------------------------------------------------------------------------
(* Claims about Connection::send *)

\* C24: send() returns true only when the socket took every byte of the
\* serialized message, 20 + payload bytes in order; a write error clears
\* connected_ and makes it return false; on a connection that is not
\* connected it returns false and writes nothing.
C24_SendAll ==
    snd.pc = "returned" =>
        /\ snd.ret =>
              /\ snd.socket = to_bytes(snd.message)
              /\ Len(snd.socket) = HEADER_SIZE + Len(snd.message.payload_)
        /\ snd.failed => ~snd.connected_ /\ ~snd.ret
        /\ ~snd.was_connected => ~snd.ret /\ snd.socket = <<>>

\* send() returned true after the socket took the message in three pieces.
C24_Witness ==
    /\ snd.pc = "returned"
    /\ snd.ret
    /\ snd.writes = 3
    /\ snd.message.payload_ # <<>>

----------------------------------------------------------------------------
(* Claims about capture_loop *)

\* The captures numbered from..to, in order.
Captures(from, to) == [k \in 1..(to - from + 1) |-> from + k - 1]

----------------------------------------------------------------------------
(* Claims about process_loop *)

\* Every message that entered message_queue_, oldest first.
Output == pipe.message_queue_

\* C27: for each media kind, the messages enter the pipeline output queue in
\* the order in which their source frames were captured: of two messages of
\* one kind, the earlier one comes from the earlier capture.
C27_CaptureOrder ==
    \A i, j \in 1..Len(Output) :
        (i < j /\ Output[i].type = Output[j].type) =>
            Output[i].source < Output[j].source

\* Both kinds have put two messages into the output, one capture queue has
\* evicted a frame, and an encode has failed in between.
C27_Witness ==
    /\ \A kind \in Kinds :
          Cardinality({i \in 1..Len(Output) : Output[i].type = kind}) >= 2
    /\ \E kind \in Kinds : pipe.capture[kind].dropped_frames_ > 0
    /\ pipe.failed # <<>>

\* C28: a frame whose encode failed gets no message, failed_encodings counts
\* it, and once the pipeline has gone on to the next frame every output frame
\* it took from its pool has been returned to it.
C28_EncoderFailure ==
    /\ \A i \in 1..Len(pipe.failed), j \in 1..Len(pipe.message_queue_) :
          pipe.failed[i] # pipe.message_queue_[j]
    /\ pipe.stats_.failed_encodings = Len(pipe.failed)
    /\ pipe.process.pc = "take" =>
          pipe.frame_pool.stats_total_return_ = pipe.frame_pool.stats_total_get_

\* The parts of C28 that the code keeps: a failed frame gets no message, and
\* the loop goes on to the other kind with the raw frame handed back.
C28_DroppedAndContinues ==
    /\ \A i \in 1..Len(pipe.failed), j \in 1..Len(pipe.message_queue_) :
          pipe.failed[i] # pipe.message_queue_[j]
    /\ pipe.process.pc = "take" => pipe.process.raw = 0

----------------------------------------------------------------------------
(* Claims about the message handlers *)

HandlerPc(c) == disp.handler[c].pc

\* The connection's handler holds a set-bitrate message of 4 bytes or more.
HoldsSetBitrate(c) ==
    /\ disp.handler[c].message.type = SET_BITRATE
    /\ Len(disp.handler[c].message.payload) >= 4

FirstFour(c) == SubSeq(disp.handler[c].message.payload, 1, 4)

\* The four little-endian bytes of a uint32_t.
BytesOf(bitrate) == ToBytes(bitrate.lo, 2) \o ToBytes(bitrate.hi, 2)

Count(seq, x) == Cardinality({i \in 1..Len(seq) : seq[i] = x})

\* C29: a set-bitrate message with 4 payload bytes or more makes the cap of
\* the sending connection's subscriber the little-endian value of the first 4
\* bytes and leaves every other subscriber alone, then sets the encoder target
\* to that value, then sends one ACK on that connection and on no other.
C29_SetBitrate ==
    /\ [](\A c \in DispConns :
            (HoldsSetBitrate(c) /\ HandlerPc(c) \in {"target", "ack"}
                /\ c \in DOMAIN disp.clients_) =>
                BytesOf(disp.clients_[c].bitrate_limit) = FirstFour(c))
    /\ [][\A c \in DispConns :
            (HoldsSetBitrate(c) /\ disp'.handler[c].pc # HandlerPc(c)) =>
              /\ HandlerPc(c) = "set_bitrate" =>
                    /\ disp'.handler[c].pc = "target"
                    /\ DOMAIN disp'.clients_ = DOMAIN disp.clients_
                    /\ \A id \in DOMAIN disp.clients_ :
                          IF id = c
                          THEN BytesOf(disp'.clients_[id].bitrate_limit) = FirstFour(c)
                          ELSE disp'.clients_[id] = disp.clients_[id]
              /\ HandlerPc(c) = "target" =>
                    /\ disp'.handler[c].pc = "ack"
                    /\ BytesOf(disp'.target_bitrate) = FirstFour(c)
                    /\ disp'.clients_ = disp.clients_
              /\ HandlerPc(c) = "ack" =>
                    /\ disp'.handler[c].pc = "idle"
                    /\ disp'.sent = [disp.sent EXCEPT ![c] = Append(@, Reply(ACK))]
                    /\ disp'.clients_ = disp.clients_]_vars

\* A connection has had a set-bitrate message of more than 4 bytes, with a
\* top byte of 128 or more, handled to the end, next to a subscriber that kept
\* the default cap.
C29_Witness ==
    \E c \in DispConns, d \in DispConns :
        /\ d # c
        /\ HoldsSetBitrate(c)
        /\ HandlerPc(c) = "idle"
        /\ Len(disp.handler[c].message.payload) > 4
        /\ disp.handler[c].message.payload[4] >= 128
        /\ c \in DOMAIN disp.clients_
        /\ BytesOf(disp.clients_[c].bitrate_limit) = FirstFour(c)
        /\ BytesOf(disp.target_bitrate) = FirstFour(c)
        /\ disp.sent[c] = <<Reply(ACK)>>
        /\ d \in DOMAIN disp.clients_
        /\ disp.clients_[d].bitrate_limit = DefaultBitrate
        /\ disp.sent[d] = <<>>

\* C30: the heartbeat-acks sent on a connection, all without payload, are as
\* many as the heartbeats dispatched for it (less the one being handled), and
\* dispatching a message of a type without handler sends nothing and changes
\* neither a subscriber nor the encoder target.
C30_Heartbeat ==
    /\ [](\A c \in DispConns :
            /\ Count(disp.sent[c], Reply(HEARTBEAT_ACK))
                 = Count(disp.dispatched[c], HEARTBEAT)
                     - (IF HandlerPc(c) = "heartbeat" THEN 1 ELSE 0)
            /\ \A i \in 1..Len(disp.sent[c]) :
                  disp.sent[c][i].type = HEARTBEAT_ACK =>
                      disp.sent[c][i].payload = <<>>)
    /\ [][\A c \in DispConns :
            (/\ disp'.dispatched[c] # disp.dispatched[c]
             /\ disp'.handler[c].message.type \notin HandledTypes) =>
                /\ disp'.handler[c].pc = "idle"
                /\ disp'.sent = disp.sent
                /\ disp'.clients_ = disp.clients_
                /\ disp'.target_bitrate = disp.target_bitrate]_vars

\* A heartbeat was answered on its connection and a message of a type
\* without handler was dispatched.
C30_Witness ==
    \E c \in DispConns, d \in DispConns :
        /\ HEARTBEAT \in {disp.dispatched[c][i] : i \in 1..Len(disp.dispatched[c])}
        /\ HandlerPc(c) = "idle"
        /\ Count(disp.sent[c], Reply(HEARTBEAT_ACK)) = 1
        /\ \E i \in 1..Len(disp.dispatched[d]) :
              disp.dispatched[d][i] \notin HandledTypes

----------------------------------------------------------------------------
(* Claims about AVServer::start and AVServer::stop *)

RECURSIVE Reverse(_)
Reverse(seq) == IF seq = <<>> THEN <<>> ELSE Append(Reverse(Tail(seq)), Head(seq))

StartOrder ==
    <<"capture", "encoder", "pipeline", "distributor", "listener", "stats">>

\* C31: the components start in the order capture, encoder, pipeline,
\* distributor, listener, stats task, and a stop() that has gone through has
\* stopped what was started in exactly the reverse order.
C31_FacadeOrder ==
    /\ fac.started = SubSeq(StartOrder, 1, Len(fac.started))
    /\ (fac.stop = "done" /\ fac.stopped # <<>>) =>
          fac.stopped = Reverse(fac.started)

\* The start order alone, which the code keeps.
C31_StartOrder == fac.started = SubSeq(StartOrder, 1, Len(fac.started))

\* C32: when bind or listen fails, the listener's start() has returned false
\* with its running flag false and no accept thread, the facade's start()
\* returns false and the facade is not running.
C32_ListenFailure ==
    fac.listen_outcome \in {"bind_fails", "listen_fails"} =>
        /\ ~fac.listener.running_
        /\ fac.listener.accept_thread = "none"
        /\ ~fac.listener.listen_open
        /\ fac.start = "returned"
        /\ fac.start_ret = "false"
        /\ ~fac.running_
        /\ fac.dist = "none" /\ fac.stats = "none"

\* The bind failed after everything before the listener had started.
C32_Witness ==
    /\ fac.listen_outcome = "bind_fails"
    /\ fac.start = "returned"
    /\ Len(fac.started) = 4

\* C35: a stop() that has cleared the running flag comes to its end, with
\* the distribution, stats and accept threads joined and every component
\* stopped, also when the distributor is inside a send on a socket that never
\* becomes writable.
C35_StopTerminates ==
    (fac.stop = "join_dist") ~>
        (/\ fac.stop = "done"
         /\ fac.dist = "none" /\ fac.stats = "none"
         /\ fac.listener.accept_thread = "none"
         /\ fac.up = {})

\* The same with the two obstacles set aside: every socket takes the bytes
\* and closing the listening socket wakes ::accept.
C35_StopTerminatesUnobstructed ==
    (fac.stop = "join_dist" /\ fac.writable /\ fac.close_outcome = "accept_fails")
        ~> (fac.stop = "done" /\ fac.up = {})

\* C37: from the return of a successful start() until stop() is called,
\* neither the distribution thread nor the stats thread has left its loop.
C37_TasksAlive ==
    (fac.start_ret = "true" /\ fac.stop = "idle") =>
        (fac.dist # "exited" /\ fac.stats # "exited")

\* C38: after a start() that returned false, nothing it started is still
\* running once a following stop() has returned.
C38_FailedStartCleansUp ==
    (fac.start_ret = "false" /\ fac.stop = "done") => fac.up = {}

\* C33: for every registered subscriber, messages_sent and bytes_sent equal
\* the number and the total serialized size of the messages whose send on
\* that subscriber's connection succeeded.
C33_AccountingMatchesDelivery ==
    \A c \in DOMAIN sub.clients_ :
        /\ sub.clients_[c].messages_sent = sub.sent[c].count
        /\ sub.clients_[c].bytes_sent = sub.sent[c].bytes

\* C33, the part that holds: while a subscriber stays registered neither of
\* its counters decreases.
C33_CountersNeverDecrease ==
    [][\A c \in DOMAIN sub.clients_ \cap DOMAIN sub'.clients_ :
          /\ sub'.clients_[c].messages_sent >= sub.clients_[c].messages_sent
          /\ sub'.clients_[c].bytes_sent >= sub.clients_[c].bytes_sent]_vars

\* C34: a registered subscriber to which a fan-out send has failed is marked
\* inactive and no further send to it is attempted.
C34_FailedMarkedInactive ==
    \A c \in DOMAIN sub.clients_ :
        c \in sub.failed =>
            /\ ~sub.clients_[c].is_active
            /\ c \notin sub.retried

\* C36: no write, read or peek waits for mutex_ while its own thread holds
\* it, so no thread is ever stuck inside the buffer with mutex_ locked.
C36_RingOperationsReturn ==
    ~ringHung

\* C39: after any sequence of set_type, set_timestamp, set_payload,
\* append_payload and clear_payload the stored header CRC equals the CRC
\* recomputed over the header, the message is valid, and from_bytes accepts
\* its serialized bytes.
C39_HeaderCrcConsistent ==
    /\ src_msg.header_.header_crc = calculate_crc(src_msg.header_)
    /\ message_is_valid(src_msg)
    /\ rtrip.done => rtrip.ok

\* C40: no send or recv system call is issued on the connection's socket
\* after close() has released it, and none uses the released descriptor.
C40_NoUseAfterClose ==
    /\ link.after_close = {}
    /\ link.stale = {}

====
